---- MODULE Spec2Model ----
(***************************************************************************)
(* Provider abstraction of prompts/llm_providers.py, prompts/llm_config.py *)
(* and prompts/llm_interface.py as a state machine.                        *)
(*                                                                         *)
(* Objects live in heaps (sequences): an object's identity is its index.   *)
(* Numbers are scaled by 100 (temperature 0.7 is 70).  Python's None is    *)
(* None (numbers) or NoneStr (strings); a keyword argument that is not     *)
(* passed to a backend client, or an attribute a class does not have, is   *)
(* Absent / AbsentStr.                                                     *)
(***************************************************************************)
EXTENDS Integers, Sequences, FiniteSets, TLC

VARIABLES
    adapters,   \* heap of LLMProvider instances, in construction order
    clients,    \* heap of backend chat-model clients (ChatOllama, ...)
    gen,        \* the generator object returned by the latest stream() call
    last,       \* what the latest call did: requests sent, value returned
    config,     \* the LLMConfig instance in use, or NoConfig
    env,        \* os.environ: OPENAI_API_KEY and GOOGLE_API_KEY
    configs,    \* heap of the LLMConfig instances get_config has constructed
    _config,    \* llm_config._config: an index into configs, or 0 for None
    pending,    \* the arguments of the function call about to be made
    store,      \* the SimpleVectorStore, or NoStore
    retriever,  \* the SimpleRetriever made from the store, or NoRetriever
    history,    \* the WindowedChatMessageHistory, or NoHistory
    agent,      \* the run of ToolCallingAgent.invoke / SimpleAgentExecutor.invoke
    chain,      \* the run of chain_retry.invoke
    runner,     \* the run of run_all_demos.main
    threads     \* the callers of get_config, each at its place in the function

vars == <<adapters, clients, gen, last, config, env, configs, _config, pending, store,
          retriever, history, agent, chain, runner, threads>>

-----------------------------------------------------------------------------
(* Bounds of the model *)

MaxAdapters == 3
MaxBatch == 2
MaxChunks == 3

-----------------------------------------------------------------------------
(* Values *)

None == -1
Absent == -2
NoneStr == "<None>"
AbsentStr == "<absent>"

\* bool(x) of an Optional[int] / Optional[str] / str
TruthyNum(x) == x # None /\ x # 0
TruthyStr(s) == s # NoneStr /\ s # ""

Classes == {"OllamaProvider", "OpenAIProvider", "GeminiProvider"}

-----------------------------------------------------------------------------
(* Constructors.  Each returns the new adapter's attributes and the keyword *)
(* arguments its backend client is constructed with; llm is the index the   *)
(* new client gets in the client heap.                                      *)

OllamaInit(model, base_url, temperature, top_p, num_predict, llm) ==
    [obj |-> [cls |-> "OllamaProvider", model_name |-> model,
              api_key |-> AbsentStr, base_url |-> base_url,
              temperature |-> temperature, top_p |-> top_p,
              num_predict |-> num_predict, max_tokens |-> Absent,
              max_output_tokens |-> Absent, llm |-> llm],
     client |-> [cls |-> "ChatOllama", model |-> model,
                 api_key |-> AbsentStr, base_url |-> base_url,
                 temperature |-> temperature, top_p |-> top_p,
                 max_tokens |-> num_predict]]

OpenAIInit(model, api_key, base_url, temperature, top_p, max_tokens, llm) ==
    [obj |-> [cls |-> "OpenAIProvider", model_name |-> model,
              api_key |-> api_key, base_url |-> base_url,
              temperature |-> temperature, top_p |-> top_p,
              num_predict |-> Absent, max_tokens |-> max_tokens,
              max_output_tokens |-> Absent, llm |-> llm],
     client |-> [cls |-> "ChatOpenAI", model |-> model,
                 api_key |-> IF api_key # NoneStr THEN api_key ELSE AbsentStr,
                 base_url |-> IF TruthyStr(base_url) THEN base_url ELSE AbsentStr,
                 temperature |-> temperature, top_p |-> top_p,
                 max_tokens |-> IF TruthyNum(max_tokens) THEN max_tokens ELSE Absent]]

GeminiInit(model, api_key, temperature, top_p, max_output_tokens, llm) ==
    [obj |-> [cls |-> "GeminiProvider", model_name |-> model,
              api_key |-> api_key, base_url |-> AbsentStr,
              temperature |-> temperature, top_p |-> top_p,
              num_predict |-> Absent, max_tokens |-> Absent,
              max_output_tokens |-> max_output_tokens, llm |-> llm],
     client |-> [cls |-> "ChatGoogleGenerativeAI", model |-> model,
                 api_key |-> IF TruthyStr(api_key) THEN api_key ELSE AbsentStr,
                 base_url |-> AbsentStr,
                 temperature |-> temperature, top_p |-> top_p,
                 max_tokens |-> IF TruthyNum(max_output_tokens)
                                THEN max_output_tokens ELSE Absent]]

\* update_parameters: a new instance of the same class, each parameter taken
\* from the argument unless the argument is None
\* Variant: a falsy argument counts as not given
OllamaUpdateParametersFalsy(self, temperature, top_p, max_tokens, llm) ==
    OllamaInit(self.model_name, self.base_url,
               IF TruthyNum(temperature) THEN temperature ELSE self.temperature,
               IF TruthyNum(top_p) THEN top_p ELSE self.top_p,
               IF max_tokens # None THEN max_tokens ELSE self.num_predict,
               llm)

OllamaUpdateParameters(self, temperature, top_p, max_tokens, llm) ==
    OllamaInit(self.model_name, self.base_url,
               IF temperature # None THEN temperature ELSE self.temperature,
               IF top_p # None THEN top_p ELSE self.top_p,
               IF max_tokens # None THEN max_tokens ELSE self.num_predict,
               llm)

OpenAIUpdateParameters(self, temperature, top_p, max_tokens, llm) ==
    OpenAIInit(self.model_name, self.api_key, self.base_url,
               IF temperature # None THEN temperature ELSE self.temperature,
               IF top_p # None THEN top_p ELSE self.top_p,
               IF max_tokens # None THEN max_tokens ELSE self.max_tokens,
               llm)

\* Variant: the token limit is passed through, not carried over
GeminiUpdateParametersNoCarry(self, temperature, top_p, max_tokens, llm) ==
    GeminiInit(self.model_name, self.api_key,
               IF temperature # None THEN temperature ELSE self.temperature,
               IF top_p # None THEN top_p ELSE self.top_p,
               max_tokens,
               llm)

GeminiUpdateParameters(self, temperature, top_p, max_tokens, llm) ==
    GeminiInit(self.model_name, self.api_key,
               IF temperature # None THEN temperature ELSE self.temperature,
               IF top_p # None THEN top_p ELSE self.top_p,
               IF max_tokens # None THEN max_tokens ELSE self.max_output_tokens,
               llm)

\* Allocation: the constructed adapter and its client are appended to the
\* heaps; ret is the reference handed back to the caller.
Allocate(as, cs, new) ==
    [adapters |-> Append(as, new.obj), clients |-> Append(cs, new.client),
     ret |-> Len(as) + 1]

\* Variant: the default of the abstract class, return self
UpdateParametersReturnsSelf(as, cs, a, temperature, top_p, max_tokens) ==
    [adapters |-> as, clients |-> cs, ret |-> a]

\* Variant: the receiver's attribute is set in place and the receiver returned
UpdateParametersInPlace(as, cs, a, temperature, top_p, max_tokens) ==
    [adapters |-> [as EXCEPT ![a].temperature = IF temperature # None THEN temperature ELSE @],
     clients |-> cs, ret |-> a]

\* a.update_parameters(temperature, top_p, max_tokens), dispatched on a's class
UpdateParametersCall(as, cs, a, temperature, top_p, max_tokens) ==
    LET self == as[a]
        llm == Len(cs) + 1
    IN  CASE self.cls = "OllamaProvider" ->
               Allocate(as, cs, OllamaUpdateParameters(self, temperature, top_p, max_tokens, llm))
          [] self.cls = "OpenAIProvider" ->
               Allocate(as, cs, OpenAIUpdateParameters(self, temperature, top_p, max_tokens, llm))
          [] self.cls = "GeminiProvider" ->
               Allocate(as, cs, GeminiUpdateParameters(self, temperature, top_p, max_tokens, llm))

\* a.get_model()
GetModelCall(as, a) == as[a].llm

-----------------------------------------------------------------------------
(* Inputs *)

DefaultTemperature == 70
OllamaDefaultTopP == 90
OpenAIDefaultTopP == 100
GeminiDefaultTopP == 95

\* Constructor calls: each class with all its defaults and with every
\* argument given
ConstructorArgs ==
    { [cls |-> "OllamaProvider", model |-> "deepseek-r1-32b:latest",
       api_key |-> AbsentStr, base_url |-> "http://localhost:11434",
       temperature |-> DefaultTemperature, top_p |-> OllamaDefaultTopP, max_tokens |-> None],
      [cls |-> "OllamaProvider", model |-> "llama3",
       api_key |-> AbsentStr, base_url |-> "http://gpu:11434",
       temperature |-> 20, top_p |-> 50, max_tokens |-> 64],
      [cls |-> "OpenAIProvider", model |-> "gpt-3.5-turbo",
       api_key |-> NoneStr, base_url |-> NoneStr,
       temperature |-> DefaultTemperature, top_p |-> OpenAIDefaultTopP, max_tokens |-> None],
      [cls |-> "OpenAIProvider", model |-> "gpt-4o-mini",
       api_key |-> "sk-1", base_url |-> "http://proxy/v1",
       temperature |-> 20, top_p |-> 50, max_tokens |-> 64],
      [cls |-> "GeminiProvider", model |-> "gemini-pro",
       api_key |-> NoneStr, base_url |-> AbsentStr,
       temperature |-> DefaultTemperature, top_p |-> GeminiDefaultTopP, max_tokens |-> None],
      [cls |-> "GeminiProvider", model |-> "gemini-1.5-pro",
       api_key |-> "g-1", base_url |-> AbsentStr,
       temperature |-> 20, top_p |-> 50, max_tokens |-> 64] }

ConstructCall(as, cs, args) ==
    LET llm == Len(cs) + 1
    IN  CASE args.cls = "OllamaProvider" ->
               Allocate(as, cs, OllamaInit(args.model, args.base_url, args.temperature,
                                           args.top_p, args.max_tokens, llm))
          [] args.cls = "OpenAIProvider" ->
               Allocate(as, cs, OpenAIInit(args.model, args.api_key, args.base_url,
                                           args.temperature, args.top_p, args.max_tokens, llm))
          [] args.cls = "GeminiProvider" ->
               Allocate(as, cs, GeminiInit(args.model, args.api_key, args.temperature,
                                           args.top_p, args.max_tokens, llm))

\* Arguments of update_parameters: not given (None), zero, and a positive value
TemperatureArgs == {None, 0, 10}
TopPArgs == {None, 0}
MaxTokensArgs == {None, 0, 100}

-----------------------------------------------------------------------------
(* Calls on an adapter.  A prompt is a str (str = TRUE, val its text) or a  *)
(* list of messages (str = FALSE, val the list).  The backend's behaviour   *)
(* for one call is an input: it returns a response or raises.               *)

Texts == {"hi", "yo"}
Contents == {"", "Hello"}
Errors == {"AuthenticationError", "RateLimitError"}
NoError == "<no error>"
NoValue == "<no value>"
StopIteration == "StopIteration"

HumanMessage(content) == [type |-> "human", content |-> content]
SystemMessage(content) == [type |-> "system", content |-> content]

StrPrompt(s) == [str |-> TRUE, val |-> s]
ListPrompt(msgs) == [str |-> FALSE, val |-> msgs]

Prompts ==
    {StrPrompt(s) : s \in Texts}
    \cup {ListPrompt(<<HumanMessage(s)>>) : s \in Texts}
    \cup {ListPrompt(<<SystemMessage("be brief"), HumanMessage("hi")>>)}

Returns(content) == [raises |-> FALSE, response |-> [content |-> content], error |-> NoError]
Raises(e) == [raises |-> TRUE, response |-> [content |-> NoValue], error |-> e]

InvokeBackends == {Returns(c) : c \in Contents} \cup {Raises(e) : e \in Errors}

\* Variant: a str prompt is wrapped as a system message
WrapPromptAsSystem(prompt) ==
    IF prompt.str THEN <<SystemMessage(prompt.val)>> ELSE prompt.val

\* if isinstance(prompt, str): prompt = [HumanMessage(content=prompt)]
WrapPrompt(prompt) ==
    IF prompt.str THEN <<HumanMessage(prompt.val)>> ELSE prompt.val

\* One call of a method of the backend client llm
ClientCall(llm, method, input) == [client |-> llm, method |-> method, input |-> input]

\* invoke(prompt) of each class: calls are the backend calls made, in order;
\* the method returns value or raises raised
OllamaInvoke(self, prompt, backend) ==
    LET msgs == WrapPrompt(prompt)
        calls == <<ClientCall(self.llm, "invoke", msgs)>>
    IN  IF backend.raises
        THEN [calls |-> calls, raised |-> backend.error, value |-> NoValue]
        ELSE [calls |-> calls, raised |-> NoError, value |-> backend.response.content]

\* Variant: a failed backend call is made once more before the error is raised
OpenAIInvokeRetry(self, prompt, backend) ==
    LET msgs == WrapPrompt(prompt)
        call == ClientCall(self.llm, "invoke", msgs)
    IN  IF backend.raises
        THEN [calls |-> <<call, call>>, raised |-> backend.error, value |-> NoValue]
        ELSE [calls |-> <<call>>, raised |-> NoError, value |-> backend.response.content]

OpenAIInvoke(self, prompt, backend) ==
    LET msgs == WrapPrompt(prompt)
        calls == <<ClientCall(self.llm, "invoke", msgs)>>
    IN  IF backend.raises
        THEN [calls |-> calls, raised |-> backend.error, value |-> NoValue]
        ELSE [calls |-> calls, raised |-> NoError, value |-> backend.response.content]

GeminiInvoke(self, prompt, backend) ==
    LET msgs == WrapPrompt(prompt)
        calls == <<ClientCall(self.llm, "invoke", msgs)>>
    IN  IF backend.raises
        THEN [calls |-> calls, raised |-> backend.error, value |-> NoValue]
        ELSE [calls |-> calls, raised |-> NoError, value |-> backend.response.content]

InvokeCall(self, prompt, backend) ==
    CASE self.cls = "OllamaProvider" -> OllamaInvoke(self, prompt, backend)
      [] self.cls = "OpenAIProvider" -> OpenAIInvoke(self, prompt, backend)
      [] self.cls = "GeminiProvider" -> GeminiInvoke(self, prompt, backend)

\* invoke_with_metadata(prompt) of each class: t0 and t1 are the two readings
\* of time.time(), before and after the backend call
OllamaInvokeWithMetadata(self, prompt, backend, t0, t1) ==
    LET msgs == WrapPrompt(prompt)
        calls == <<ClientCall(self.llm, "invoke", msgs)>>
    IN  IF backend.raises
        THEN [calls |-> calls, raised |-> backend.error, value |-> NoValue]
        ELSE [calls |-> calls, raised |-> NoError,
              value |-> <<backend.response.content, backend.response, t0, t1>>]

OpenAIInvokeWithMetadata(self, prompt, backend, t0, t1) ==
    LET msgs == WrapPrompt(prompt)
        calls == <<ClientCall(self.llm, "invoke", msgs)>>
    IN  IF backend.raises
        THEN [calls |-> calls, raised |-> backend.error, value |-> NoValue]
        ELSE [calls |-> calls, raised |-> NoError,
              value |-> <<backend.response.content, backend.response, t0, t1>>]

GeminiInvokeWithMetadata(self, prompt, backend, t0, t1) ==
    LET msgs == WrapPrompt(prompt)
        calls == <<ClientCall(self.llm, "invoke", msgs)>>
    IN  IF backend.raises
        THEN [calls |-> calls, raised |-> backend.error, value |-> NoValue]
        ELSE [calls |-> calls, raised |-> NoError,
              value |-> <<backend.response.content, backend.response, t0, t1>>]

InvokeWithMetadataCall(self, prompt, backend, t0, t1) ==
    CASE self.cls = "OllamaProvider" -> OllamaInvokeWithMetadata(self, prompt, backend, t0, t1)
      [] self.cls = "OpenAIProvider" -> OpenAIInvokeWithMetadata(self, prompt, backend, t0, t1)
      [] self.cls = "GeminiProvider" -> GeminiInvokeWithMetadata(self, prompt, backend, t0, t1)

\* batch(prompts) of each class: backend.responses is what the client's batch
\* returns
OllamaBatch(self, prompts, backend) ==
    LET messages_list == [i \in 1..Len(prompts) |-> <<HumanMessage(prompts[i])>>]
        calls == <<ClientCall(self.llm, "batch", messages_list)>>
    IN  IF backend.raises
        THEN [calls |-> calls, raised |-> backend.error, value |-> NoValue]
        ELSE [calls |-> calls, raised |-> NoError,
              value |-> [i \in 1..Len(backend.responses) |-> backend.responses[i].content]]

\* Variant: the results are collected in reverse order
OpenAIBatchReversed(self, prompts, backend) ==
    LET messages_list == [i \in 1..Len(prompts) |-> <<HumanMessage(prompts[i])>>]
        calls == <<ClientCall(self.llm, "batch", messages_list)>>
        n == Len(backend.responses)
    IN  IF backend.raises
        THEN [calls |-> calls, raised |-> backend.error, value |-> NoValue]
        ELSE [calls |-> calls, raised |-> NoError,
              value |-> [i \in 1..n |-> backend.responses[n + 1 - i].content]]

OpenAIBatch(self, prompts, backend) ==
    LET messages_list == [i \in 1..Len(prompts) |-> <<HumanMessage(prompts[i])>>]
        calls == <<ClientCall(self.llm, "batch", messages_list)>>
    IN  IF backend.raises
        THEN [calls |-> calls, raised |-> backend.error, value |-> NoValue]
        ELSE [calls |-> calls, raised |-> NoError,
              value |-> [i \in 1..Len(backend.responses) |-> backend.responses[i].content]]

GeminiBatch(self, prompts, backend) ==
    LET messages_list == [i \in 1..Len(prompts) |-> <<HumanMessage(prompts[i])>>]
        calls == <<ClientCall(self.llm, "batch", messages_list)>>
    IN  IF backend.raises
        THEN [calls |-> calls, raised |-> backend.error, value |-> NoValue]
        ELSE [calls |-> calls, raised |-> NoError,
              value |-> [i \in 1..Len(backend.responses) |-> backend.responses[i].content]]

BatchCall(self, prompts, backend) ==
    CASE self.cls = "OllamaProvider" -> OllamaBatch(self, prompts, backend)
      [] self.cls = "OpenAIProvider" -> OpenAIBatch(self, prompts, backend)
      [] self.cls = "GeminiProvider" -> GeminiBatch(self, prompts, backend)

RECURSIVE SeqsUpTo(_, _)
SeqsUpTo(S, n) ==
    IF n = 0 THEN {<<>>}
    ELSE LET shorter == SeqsUpTo(S, n - 1)
         IN  shorter \cup {Append(q, x) : q \in {r \in shorter : Len(r) = n - 1}, x \in S}

BatchInputs == SeqsUpTo(Texts, MaxBatch)

\* The client's batch returns one response per input, or raises
BatchBackends(n) ==
    {[raises |-> FALSE, responses |-> [i \in 1..n |-> [content |-> f[i]]], error |-> NoError]
        : f \in [1..n -> Contents]}
    \cup {[raises |-> TRUE, responses |-> <<>>, error |-> e] : e \in Errors}

-----------------------------------------------------------------------------
(* stream: a generator function.  Calling it runs none of its body; each    *)
(* next() runs the body up to the next yield, the end, or an exception.     *)
(* The backend's stream is a script: the chunks it produces, then its end   *)
(* or an error.                                                             *)

Fragments == {"", "He", "llo"}
NoScript == [chunks |-> <<>>, error |-> "<not started>"]
Scripts == {[chunks |-> c, error |-> e] : c \in SeqsUpTo(Fragments, MaxChunks),
                                          e \in {NoError} \cup Errors}
NoGen == [self |-> 0, prompt |-> StrPrompt(""), pc |-> "none", backend |-> NoScript,
          pos |-> 0, requests |-> <<>>, yielded |-> <<>>]

\* Variant: stream opens the backend stream when it is called
StreamCallEager(a, prompt) ==
    [self |-> a, prompt |-> prompt, pc |-> "created", backend |-> NoScript,
     pos |-> 0, requests |-> <<ClientCall(a, "stream", WrapPrompt(prompt))>>,
     yielded |-> <<>>]

\* self.stream(prompt): the generator object, not yet started
StreamCall(a, prompt) ==
    [self |-> a, prompt |-> prompt, pc |-> "created", backend |-> NoScript,
     pos |-> 0, requests |-> <<>>, yielded |-> <<>>]

\* Variant: every chunk is yielded, empty or not
NextChunk(chunks, i) == i

\* for chunk in ...: if chunk.content: -- the index of the next chunk, after
\* the first i - 1, whose content is truthy; Len(chunks) + 1 if there is none
RECURSIVE NextTruthy(_, _)
NextTruthy(chunks, i) ==
    IF i > Len(chunks) THEN i
    ELSE IF chunks[i] # "" THEN i
    ELSE NextTruthy(chunks, i + 1)

\* The generator body of each class's stream.  StreamResume runs from the top
\* of the for loop to the next yield, the end of the backend stream or its
\* error; pos counts the backend chunks read.  StreamNext is next(g): the
\* first one wraps the prompt and opens the backend stream, whose script is
\* then fixed; a finished generator raises StopIteration.
OllamaStreamResume(g) ==
    LET chunks == g.backend.chunks
        i == NextTruthy(chunks, g.pos + 1)
    IN  IF i <= Len(chunks)
        THEN [gen |-> [g EXCEPT !.pos = i, !.pc = "suspended",
                                !.yielded = Append(@, chunks[i])],
              value |-> chunks[i], raised |-> NoError]
        ELSE [gen |-> [g EXCEPT !.pos = Len(chunks), !.pc = "done"],
              value |-> NoValue,
              raised |-> IF g.backend.error # NoError THEN g.backend.error
                         ELSE StopIteration]

OllamaStreamNext(self, g, script) ==
    IF g.pc = "created"
    THEN LET call == ClientCall(self.llm, "stream", WrapPrompt(g.prompt))
         IN  OllamaStreamResume([g EXCEPT !.backend = script, !.requests = <<call>>])
    ELSE IF g.pc = "suspended"
    THEN OllamaStreamResume(g)
    ELSE [gen |-> g, value |-> NoValue, raised |-> StopIteration]

OpenAIStreamResume(g) ==
    LET chunks == g.backend.chunks
        i == NextTruthy(chunks, g.pos + 1)
    IN  IF i <= Len(chunks)
        THEN [gen |-> [g EXCEPT !.pos = i, !.pc = "suspended",
                                !.yielded = Append(@, chunks[i])],
              value |-> chunks[i], raised |-> NoError]
        ELSE [gen |-> [g EXCEPT !.pos = Len(chunks), !.pc = "done"],
              value |-> NoValue,
              raised |-> IF g.backend.error # NoError THEN g.backend.error
                         ELSE StopIteration]

OpenAIStreamNext(self, g, script) ==
    IF g.pc = "created"
    THEN LET call == ClientCall(self.llm, "stream", WrapPrompt(g.prompt))
         IN  OpenAIStreamResume([g EXCEPT !.backend = script, !.requests = <<call>>])
    ELSE IF g.pc = "suspended"
    THEN OpenAIStreamResume(g)
    ELSE [gen |-> g, value |-> NoValue, raised |-> StopIteration]

GeminiStreamResume(g) ==
    LET chunks == g.backend.chunks
        i == NextTruthy(chunks, g.pos + 1)
    IN  IF i <= Len(chunks)
        THEN [gen |-> [g EXCEPT !.pos = i, !.pc = "suspended",
                                !.yielded = Append(@, chunks[i])],
              value |-> chunks[i], raised |-> NoError]
        ELSE [gen |-> [g EXCEPT !.pos = Len(chunks), !.pc = "done"],
              value |-> NoValue,
              raised |-> IF g.backend.error # NoError THEN g.backend.error
                         ELSE StopIteration]

GeminiStreamNext(self, g, script) ==
    IF g.pc = "created"
    THEN LET call == ClientCall(self.llm, "stream", WrapPrompt(g.prompt))
         IN  GeminiStreamResume([g EXCEPT !.backend = script, !.requests = <<call>>])
    ELSE IF g.pc = "suspended"
    THEN GeminiStreamResume(g)
    ELSE [gen |-> g, value |-> NoValue, raised |-> StopIteration]

StreamNext(as, g, script) ==
    LET self == as[g.self]
    IN  CASE self.cls = "OllamaProvider" -> OllamaStreamNext(self, g, script)
          [] self.cls = "OpenAIProvider" -> OpenAIStreamNext(self, g, script)
          [] self.cls = "GeminiProvider" -> GeminiStreamNext(self, g, script)

RECURSIVE Concat(_)
Concat(frags) ==
    IF frags = <<>> THEN "" ELSE Head(frags) \o Concat(Tail(frags))

-----------------------------------------------------------------------------
(* LLMConfig *)

Providers == {"ollama", "openai", "gemini"}
Selectors == Providers \cup {"unknown_value"}
NoConfig == [provider |-> "<no config>"]
ValidationError == "ValidationError"
ValueError == "ValueError"

OllamaSettings ==
    { [ollama_model |-> "deepseek-r1-32b:latest", ollama_base_url |-> "http://localhost:11434",
       ollama_temperature |-> DefaultTemperature, ollama_top_p |-> OllamaDefaultTopP,
       ollama_num_predict |-> None],
      [ollama_model |-> "llama3", ollama_base_url |-> "http://gpu:11434",
       ollama_temperature |-> 20, ollama_top_p |-> 50, ollama_num_predict |-> 64] }

OpenAISettings ==
    { [openai_model |-> "gpt-3.5-turbo", openai_api_key |-> NoneStr, openai_base_url |-> NoneStr,
       openai_temperature |-> DefaultTemperature, openai_top_p |-> OpenAIDefaultTopP,
       openai_max_tokens |-> None],
      [openai_model |-> "gpt-4o-mini", openai_api_key |-> "sk-1",
       openai_base_url |-> "http://proxy/v1",
       openai_temperature |-> 30, openai_top_p |-> 60, openai_max_tokens |-> 128],
      [openai_model |-> "gpt-3.5-turbo", openai_api_key |-> "", openai_base_url |-> NoneStr,
       openai_temperature |-> DefaultTemperature, openai_top_p |-> OpenAIDefaultTopP,
       openai_max_tokens |-> None] }

GeminiSettings ==
    { [gemini_model |-> "gemini-2.5-flash", gemini_api_key |-> NoneStr,
       gemini_temperature |-> DefaultTemperature, gemini_top_p |-> GeminiDefaultTopP,
       gemini_max_output_tokens |-> None],
      [gemini_model |-> "gemini-1.5-pro", gemini_api_key |-> "g-1",
       gemini_temperature |-> 40, gemini_top_p |-> 80, gemini_max_output_tokens |-> 256],
      [gemini_model |-> "gemini-2.5-flash", gemini_api_key |-> "",
       gemini_temperature |-> DefaultTemperature, gemini_top_p |-> GeminiDefaultTopP,
       gemini_max_output_tokens |-> None] }

\* Merge of two records with disjoint fields
Merge(r, t) ==
    [f \in DOMAIN r \cup DOMAIN t |-> IF f \in DOMAIN r THEN r[f] ELSE t[f]]

\* LLMConfig(provider=..., ...): the provider field is a Literal of the three
\* provider names, validated at construction
LLMConfigInit(provider, o, a, g) ==
    IF provider \in Providers
    THEN [raised |-> NoError,
          obj |-> Merge([provider |-> provider], Merge(o, Merge(a, g)))]
    ELSE [raised |-> ValidationError, obj |-> NoConfig]

\* Variant: the second operand is preferred
OrStrSecond(a, b) == IF TruthyStr(b) THEN b ELSE a

\* a or b, on Optional[str]
OrStr(a, b) == IF TruthyStr(a) THEN a ELSE b

GetOllamaConfig(cfg) ==
    [model |-> cfg.ollama_model, base_url |-> cfg.ollama_base_url,
     temperature |-> cfg.ollama_temperature, top_p |-> cfg.ollama_top_p,
     num_predict |-> cfg.ollama_num_predict]

GetOpenAIConfig(cfg, environ) ==
    [model |-> cfg.openai_model,
     api_key |-> OrStr(cfg.openai_api_key, environ.OPENAI_API_KEY),
     base_url |-> cfg.openai_base_url,
     temperature |-> cfg.openai_temperature, top_p |-> cfg.openai_top_p,
     max_tokens |-> cfg.openai_max_tokens]

\* Variant: the temperature is read from the OpenAI settings
GetGeminiConfigOpenAITemperature(cfg, environ) ==
    [model |-> cfg.gemini_model,
     api_key |-> OrStr(cfg.gemini_api_key, environ.GOOGLE_API_KEY),
     temperature |-> cfg.openai_temperature, top_p |-> cfg.gemini_top_p,
     max_output_tokens |-> cfg.gemini_max_output_tokens]

GetGeminiConfig(cfg, environ) ==
    [model |-> cfg.gemini_model,
     api_key |-> OrStr(cfg.gemini_api_key, environ.GOOGLE_API_KEY),
     temperature |-> cfg.gemini_temperature, top_p |-> cfg.gemini_top_p,
     max_output_tokens |-> cfg.gemini_max_output_tokens]

Raised(as, cs, e) == [adapters |-> as, clients |-> cs, ret |-> 0, raised |-> e]
Returned(alloc) == Merge(alloc, [raised |-> NoError])

\* Variant: an unknown provider falls back to an Ollama adapter with defaults
CreateProviderFallback(as, cs, cfg, environ) ==
    LET llm == Len(cs) + 1
    IN  IF cfg.provider = "openai"
        THEN LET c == GetOpenAIConfig(cfg, environ)
             IN  Returned(Allocate(as, cs,
                     OpenAIInit(c.model, c.api_key, c.base_url, c.temperature, c.top_p,
                                c.max_tokens, llm)))
        ELSE IF cfg.provider = "gemini"
        THEN LET c == GetGeminiConfig(cfg, environ)
             IN  Returned(Allocate(as, cs,
                     GeminiInit(c.model, c.api_key, c.temperature, c.top_p,
                                c.max_output_tokens, llm)))
        ELSE LET c == GetOllamaConfig(cfg)
             IN  Returned(Allocate(as, cs,
                     OllamaInit(c.model, c.base_url, c.temperature, c.top_p,
                                c.num_predict, llm)))

\* cfg.create_provider()
CreateProviderCall(as, cs, cfg, environ) ==
    LET llm == Len(cs) + 1
    IN  IF cfg.provider = "ollama"
        THEN LET c == GetOllamaConfig(cfg)
             IN  Returned(Allocate(as, cs,
                     OllamaInit(c.model, c.base_url, c.temperature, c.top_p,
                                c.num_predict, llm)))
        ELSE IF cfg.provider = "openai"
        THEN LET c == GetOpenAIConfig(cfg, environ)
             IN  Returned(Allocate(as, cs,
                     OpenAIInit(c.model, c.api_key, c.base_url, c.temperature, c.top_p,
                                c.max_tokens, llm)))
        ELSE IF cfg.provider = "gemini"
        THEN LET c == GetGeminiConfig(cfg, environ)
             IN  Returned(Allocate(as, cs,
                     GeminiInit(c.model, c.api_key, c.temperature, c.top_p,
                                c.max_output_tokens, llm)))
        ELSE Raised(as, cs, ValueError)

\* Variant: get_config constructs an LLMConfig on every call
GetConfigCallFresh(cfgs, c, provider, o, a, g) ==
    LET r == LLMConfigInit(provider, o, a, g)
    IN  IF r.raised = NoError
        THEN [configs |-> Append(cfgs, r.obj), _config |-> Len(cfgs) + 1,
              ret |-> Len(cfgs) + 1, raised |-> NoError]
        ELSE [configs |-> cfgs, _config |-> c, ret |-> 0, raised |-> r.raised]

\* get_config(): c is the module's _config; provider, o, a, g are the settings
\* LLMConfig() finds in the environment and the .env file at the time of the
\* call.  A construction that raises leaves _config as it is.
GetConfigCall(cfgs, c, provider, o, a, g) ==
    IF c = 0
    THEN LET r == LLMConfigInit(provider, o, a, g)
         IN  IF r.raised = NoError
             THEN [configs |-> Append(cfgs, r.obj), _config |-> Len(cfgs) + 1,
                   ret |-> Len(cfgs) + 1, raised |-> NoError]
             ELSE [configs |-> cfgs, _config |-> c, ret |-> 0, raised |-> r.raised]
    ELSE [configs |-> cfgs, _config |-> c, ret |-> c, raised |-> NoError]

\* get_llm(): config = get_config(); return config.create_provider()
GetLlmCall(as, cs, cfgs, c, environ, provider, o, a, g) ==
    LET gc == GetConfigCall(cfgs, c, provider, o, a, g)
    IN  IF gc.raised # NoError
        THEN [adapters |-> as, clients |-> cs, configs |-> gc.configs,
              _config |-> gc._config, config |-> 0, ret |-> 0, raised |-> gc.raised]
        ELSE LET r == CreateProviderCall(as, cs, gc.configs[gc.ret], environ)
             IN  [adapters |-> r.adapters, clients |-> r.clients, configs |-> gc.configs,
                  _config |-> gc._config, config |-> gc.ret, ret |-> r.ret,
                  raised |-> r.raised]

\* os.getenv(name): None when the variable is unset, else its value, which may
\* be the empty string
EnvKeys == {NoneStr, "", "sk-env"}
Environs == [OPENAI_API_KEY : EnvKeys, GOOGLE_API_KEY : EnvKeys]

-----------------------------------------------------------------------------
(* print_token_usage.  A value found in a response is a record: a number, *)
(* None, some other object (a str), or AbsentVal for a key the mapping     *)
(* does not have.  Durations are counted in fifths of the clock's unit, so *)
(* that total_time * 0.2 is exact.                                         *)

TypeError == "TypeError"
AttributeError == "AttributeError"

Num(n) == [kind |-> "num", n |-> n]
NoneVal == [kind |-> "none", n |-> 0]
StrVal == [kind |-> "str", n |-> 0]
AbsentVal == [kind |-> "absent", n |-> 0]
NotAvailable == [kind |-> "N/A", n |-> 0]

\* bool(v)
Truthy(v) == v.kind = "str" \/ (v.kind = "num" /\ v.n # 0)
\* mapping.get(key, default), v being what the mapping has under key
Get(v, default) == IF v.kind = "absent" THEN default ELSE v
\* a or b
Or(a, b) == IF Truthy(a) THEN a ELSE b
\* isinstance(v, (int, float))
IsNumber(v) == v.kind = "num"

\* One entry of info_parts: f"{label}: {value}" or f"{label}: {value:.3f}s"
Part(label, format, value) == [label |-> label, format |-> format, value |-> value]

\* usage_metadata["output_token_details"]: not a key, None, or a mapping
NoDetails == [kind |-> "absent", reasoning |-> AbsentVal]
DetailsShapes ==
    {NoDetails, [kind |-> "none", reasoning |-> AbsentVal]}
    \cup {[kind |-> "mapping", reasoning |-> r] : r \in {AbsentVal, NoneVal, Num(0), Num(5)}}

\* response_obj.usage_metadata: no such attribute, None, or a mapping
NoUsage(kind) ==
    [kind |-> kind, input_tokens |-> AbsentVal, output_tokens |-> AbsentVal,
     total_tokens |-> AbsentVal, output_token_details |-> NoDetails]
UsageShapes ==
    {NoUsage("missing"), NoUsage("none")}
    \cup {[kind |-> "mapping", input_tokens |-> i, output_tokens |-> o, total_tokens |-> t,
           output_token_details |-> d] :
             i \in {AbsentVal, NoneVal, Num(12)}, o \in {AbsentVal, Num(7)},
             t \in {AbsentVal, Num(19)}, d \in DetailsShapes}

\* response_metadata["timing"]: not a key, None, or a mapping
NoTiming(kind) ==
    [kind |-> kind, first_token_time |-> AbsentVal, time_to_first_token |-> AbsentVal,
     last_token_time |-> AbsentVal, time_to_last_token |-> AbsentVal]
TimingShapes ==
    {NoTiming("absent"), NoTiming("none")}
    \cup {[kind |-> "mapping", first_token_time |-> f, time_to_first_token |-> tf,
           last_token_time |-> l, time_to_last_token |-> tl] :
             f \in {AbsentVal, Num(0), Num(2)}, tf \in {AbsentVal, Num(1)},
             l \in {AbsentVal, Num(6)}, tl \in {AbsentVal, Num(5)}}

\* response_obj.response_metadata: no such attribute, None, or a mapping
NoMetadata(kind) ==
    [kind |-> kind, first_token_time |-> AbsentVal, time_to_first_token |-> AbsentVal,
     last_token_time |-> AbsentVal, time_to_last_token |-> AbsentVal,
     timing |-> NoTiming("absent")]
MetadataShapes ==
    {NoMetadata("missing"), NoMetadata("none")}
    \cup {[kind |-> "mapping", first_token_time |-> f, time_to_first_token |-> tf,
           last_token_time |-> l, time_to_last_token |-> tl, timing |-> t] :
             f \in {AbsentVal, NoneVal, Num(3), StrVal}, tf \in {AbsentVal, Num(4)},
             l \in {AbsentVal, Num(9)}, tl \in {AbsentVal, Num(8)}, t \in TimingShapes}

\* if usage: (None and the empty mapping are falsy)
UsageTruthy(usage) ==
    /\ usage.kind = "mapping"
    /\ \/ usage.input_tokens.kind # "absent"
       \/ usage.output_tokens.kind # "absent"
       \/ usage.total_tokens.kind # "absent"
       \/ usage.output_token_details.kind # "absent"

\* Lines 129-147: token_info, or the exception raised while building it
TokenInfo(usage) ==
    IF UsageTruthy(usage)
    THEN LET details == usage.output_token_details
             head == <<Part("In", "", Get(usage.input_tokens, Num(0))),
                       Part("Out", "", Get(usage.output_tokens, Num(0))),
                       Part("Total", "", Get(usage.total_tokens, Num(0)))>>
         IN  IF details.kind = "absent" THEN [raised |-> NoError, info |-> head]
             \* "reasoning" in None
             ELSE IF details.kind = "none" THEN [raised |-> TypeError, info |-> <<>>]
             ELSE IF details.reasoning.kind = "absent"
             THEN [raised |-> NoError, info |-> head]
             \* None > 0
             ELSE IF details.reasoning.kind # "num"
             THEN [raised |-> TypeError, info |-> <<>>]
             ELSE IF details.reasoning.n > 0
             THEN [raised |-> NoError,
                   info |-> Append(head, Part("Reasoning", "", details.reasoning))]
             ELSE [raised |-> NoError, info |-> head]
    ELSE [raised |-> NoError, info |-> <<Part("Tokens", "", NotAvailable)>>]

\* Lines 150-172: first_token_time and last_token_time as found in the
\* metadata, or the exception raised while looking
MetadataTimes(metadata) ==
    \* "first_token_time" in None
    IF metadata.kind = "none"
    THEN [raised |-> TypeError, first |-> NoneVal, last |-> NoneVal]
    ELSE LET first == IF metadata.first_token_time.kind # "absent"
                      THEN metadata.first_token_time
                      ELSE Get(metadata.time_to_first_token, NoneVal)
             last_ == IF metadata.last_token_time.kind # "absent"
                      THEN metadata.last_token_time
                      ELSE Get(metadata.time_to_last_token, NoneVal)
             timing == metadata.timing
         IN  IF timing.kind = "absent"
             THEN [raised |-> NoError, first |-> first, last |-> last_]
             \* None.get
             ELSE IF timing.kind = "none"
             THEN [raised |-> AttributeError, first |-> NoneVal, last |-> NoneVal]
             ELSE [raised |-> NoError,
                   first |-> Or(Get(timing.first_token_time, NoneVal),
                                Get(timing.time_to_first_token, NoneVal)),
                   last |-> Or(Get(timing.last_token_time, NoneVal),
                               Get(timing.time_to_last_token, NoneVal))]

\* Lines 175-201: timing_info, from the times found and the two clock readings
\* (None when not given)
TimingInfo(first, last_, start_time, end_time) ==
    LET given == start_time # None /\ end_time # None
        total_time == Num((end_time - start_time) * 5)
        first_token_time == IF given /\ first.kind = "none"
                            THEN Num(end_time - start_time) ELSE first
        last_token_time == IF given /\ last_.kind = "none" THEN total_time ELSE last_
        first_info == IF first_token_time.kind = "none" THEN <<>>
                      ELSE IF IsNumber(first_token_time)
                      THEN <<Part("First", ".3f", first_token_time)>>
                      ELSE <<Part("First", "", first_token_time)>>
        last_info == IF last_token_time.kind # "none"
                     THEN IF IsNumber(last_token_time)
                          THEN <<Part("Last", ".3f", last_token_time)>>
                               \o (IF first_token_time.kind # "none"
                                      /\ IsNumber(first_token_time)
                                   THEN <<Part("Gen", ".3f",
                                               Num(last_token_time.n - first_token_time.n))>>
                                   ELSE <<>>)
                          ELSE <<Part("Last", "", last_token_time)>>
                     ELSE IF given THEN <<Part("Total", ".3f", total_time)>>
                     ELSE <<>>
    IN  first_info \o last_info

\* print_token_usage(response_obj, start_time, end_time): printed is the list
\* of parts of the line printed, empty when the function raised
PrintTokenUsageCall(response_obj, start_time, end_time) ==
    LET tokens == TokenInfo(response_obj.usage_metadata)
        times == MetadataTimes(response_obj.response_metadata)
    IN  IF tokens.raised # NoError THEN [raised |-> tokens.raised, printed |-> <<>>]
        ELSE IF times.raised # NoError THEN [raised |-> times.raised, printed |-> <<>>]
        ELSE [raised |-> NoError,
              printed |-> tokens.info \o TimingInfo(times.first, times.last, start_time,
                                                   end_time)]

-----------------------------------------------------------------------------
(* SimpleVectorStore and SimpleRetriever.  A vector is a sequence of        *)
(* integers.  A similarity dot / (norm1 * norm2) is kept exactly, as the    *)
(* fraction num / den in lowest terms whose value is the similarity times  *)
(* its absolute value: dot * |dot| / (sum of squares 1 * sum of squares 2). *)
(* Two similarities are equal, or ordered, as these fractions are; the      *)
(* rounding of the floats the code computes is not modelled.                *)

MaxTexts == 3
MaxCoord == 2
MaxDim == 2

Abs(x) == IF x < 0 THEN -x ELSE x

RECURSIVE GCD(_, _)
GCD(a, b) == IF b = 0 THEN a ELSE GCD(b, a % b)

\* sum(a * b for a, b in zip(vec1, vec2)): zip stops at the shorter vector
RECURSIVE DotProduct(_, _)
DotProduct(vec1, vec2) ==
    IF vec1 = <<>> \/ vec2 = <<>> THEN 0
    ELSE Head(vec1) * Head(vec2) + DotProduct(Tail(vec1), Tail(vec2))

\* sum(a * a for a in vec): the square of the norm
SumOfSquares(vec) == DotProduct(vec, vec)

Zero == [num |-> 0, den |-> 1]
One == [num |-> 1, den |-> 1]
ZeroDivisionError == [num |-> 0, den |-> 0]

\* dot_product / (norm1 * norm2), squares being (norm1 * norm2) squared, > 0
Quotient(dot_product, squares) ==
    LET num == dot_product * Abs(dot_product)
        g == GCD(Abs(num), squares)
    IN  [num |-> num \div g, den |-> squares \div g]

Greater(x, y) == x.num * y.den > y.num * x.den

\* Variant: no test of the norms before the division
CosineSimilarityUnguarded(vec1, vec2) ==
    LET dot_product == DotProduct(vec1, vec2)
        squares == SumOfSquares(vec1) * SumOfSquares(vec2)
    IN  IF squares = 0 THEN ZeroDivisionError ELSE Quotient(dot_product, squares)

\* Variant: the dot product is divided by the first vector's norm squared
CosineSimilarityFirstNorm(vec1, vec2) ==
    LET dot_product == DotProduct(vec1, vec2)
        squares == SumOfSquares(vec1) * SumOfSquares(vec1)
    IN  IF SumOfSquares(vec1) * SumOfSquares(vec2) > 0
        THEN Quotient(dot_product, squares) ELSE Zero

\* cosine_similarity(vec1, vec2); norm1 * norm2 > 0 exactly when the product
\* of the sums of squares is
CosineSimilarity(vec1, vec2) ==
    LET dot_product == DotProduct(vec1, vec2)
        squares == SumOfSquares(vec1) * SumOfSquares(vec2)
    IN  IF squares > 0 THEN Quotient(dot_product, squares) ELSE Zero

\* Variant: lowest similarity first
SortAscending(similarities) ==
    LET n == Len(similarities)
        Rank(i) == 1 + Cardinality({j \in 1..n :
                          \/ Greater(similarities[i], similarities[j])
                          \/ (similarities[j] = similarities[i] /\ j < i)})
    IN  [p \in 1..n |-> CHOOSE i \in 1..n : Rank(i) = p]

\* Variant: equal similarities come out in the reverse of their order
SortTiesReversed(similarities) ==
    LET n == Len(similarities)
        Rank(i) == 1 + Cardinality({j \in 1..n :
                          \/ Greater(similarities[j], similarities[i])
                          \/ (similarities[j] = similarities[i] /\ j > i)})
    IN  [p \in 1..n |-> CHOOSE i \in 1..n : Rank(i) = p]

\* indexed_sims.sort(key=lambda x: x[1], reverse=True): the indices, highest
\* similarity first; the sort is stable, so equal similarities keep the order
\* of enumerate
SortDescending(similarities) ==
    LET n == Len(similarities)
        Rank(i) == 1 + Cardinality({j \in 1..n :
                          \/ Greater(similarities[j], similarities[i])
                          \/ (similarities[j] = similarities[i] /\ j < i)})
    IN  [p \in 1..n |-> CHOOSE i \in 1..n : Rank(i) = p]

\* seq[:k]
Slice(seq, k) ==
    LET n == Len(seq)
        stop == IF k >= 0 THEN (IF k < n THEN k ELSE n)
                ELSE (IF n + k > 0 THEN n + k ELSE 0)
    IN  SubSeq(seq, 1, stop)

Document(page_content) == [page_content |-> page_content]

\* What a call of the embeddings model does: returns value or raises error
EmbedReturns(value) == [raises |-> FALSE, value |-> value, error |-> NoError]
EmbedRaises(e) == [raises |-> TRUE, value |-> <<>>, error |-> e]

EmbedCall(method, input) == [method |-> method, input |-> input]

\* No store constructed yet, no retriever made yet
NoStore == [texts |-> <<>>, embeddings |-> <<>>, built |-> FALSE]
NoRetriever == [k |-> 0, made |-> FALSE]

\* SimpleVectorStore(texts, embeddings_model)
SimpleVectorStoreInit(texts, outcome) ==
    LET calls == <<EmbedCall("embed_documents", texts)>>
    IN  IF outcome.raises
        THEN [calls |-> calls, raised |-> outcome.error, store |-> NoStore]
        ELSE [calls |-> calls, raised |-> NoError,
              store |-> [texts |-> texts, embeddings |-> outcome.value, built |-> TRUE]]

\* store.as_retriever(k): SimpleRetriever(store, k)
AsRetrieverCall(k) == [k |-> k, made |-> TRUE]

\* Variant: the corpus is embedded again on every query
SimpleRetrieverInvokeReembed(st, k, query, outcome) ==
    LET calls == <<EmbedCall("embed_query", query), EmbedCall("embed_documents", st.texts)>>
    IN  IF outcome.raises
        THEN [calls |-> calls, raised |-> outcome.error, similarities |-> <<>>,
              top_indices |-> <<>>, value |-> <<>>, store |-> st]
        ELSE LET query_embedding == outcome.value
                 embeddings == [i \in DOMAIN st.texts |-> query_embedding]
                 similarities == [i \in DOMAIN embeddings |->
                                     CosineSimilarity(query_embedding, embeddings[i])]
                 top_indices == Slice(SortDescending(similarities), k)
             IN  [calls |-> calls, raised |-> NoError, similarities |-> similarities,
                  top_indices |-> top_indices,
                  value |-> [i \in DOMAIN top_indices |-> Document(st.texts[top_indices[i]])],
                  store |-> [st EXCEPT !.embeddings = embeddings]]

\* Variant: a failed query embedding is answered with the first k texts
SimpleRetrieverInvokeFallback(st, k, query, outcome) ==
    LET calls == <<EmbedCall("embed_query", query)>>
        query_embedding == IF outcome.raises THEN <<>> ELSE outcome.value
        similarities == [i \in DOMAIN st.embeddings |->
                            CosineSimilarity(query_embedding, st.embeddings[i])]
        top_indices == Slice(SortDescending(similarities), k)
    IN  [calls |-> calls, raised |-> NoError, similarities |-> similarities,
         top_indices |-> top_indices,
         value |-> [i \in DOMAIN top_indices |-> Document(st.texts[top_indices[i]])],
         store |-> st]

\* retriever.invoke(query): outcome is what embed_query(query) does
SimpleRetrieverInvoke(st, k, query, outcome) ==
    LET calls == <<EmbedCall("embed_query", query)>>
    IN  IF outcome.raises
        THEN [calls |-> calls, raised |-> outcome.error, similarities |-> <<>>,
              top_indices |-> <<>>, value |-> <<>>, store |-> st]
        ELSE LET query_embedding == outcome.value
                 similarities == [i \in DOMAIN st.embeddings |->
                                     CosineSimilarity(query_embedding, st.embeddings[i])]
                 top_indices == Slice(SortDescending(similarities), k)
             IN  [calls |-> calls, raised |-> NoError, similarities |-> similarities,
                  top_indices |-> top_indices,
                  value |-> [i \in DOMAIN top_indices |-> Document(st.texts[top_indices[i]])],
                  store |-> st]

\* Inputs of the store and the retriever
CorpusTexts == <<"apple", "banana", "car", "dog", "egg">>
TextLists == {SubSeq(CorpusTexts, 1, n) : n \in 0..MaxTexts}
Queries == {"fruit"}
StoredVectors == {<<0, 0>>, <<1, 0>>, <<0, 1>>, <<-1, 0>>}
QueryVectors == {<<0, 0>>, <<1, 0>>, <<1, 1>>, <<2, 1>>, <<1>>, <<1, 0, 1>>}
EmbedErrors == {"ConnectionError"}
EmbedDocumentsOutcomes(texts) ==
    {EmbedReturns(vs) : vs \in [1..Len(texts) -> StoredVectors]}
    \cup {EmbedRaises(e) : e \in EmbedErrors}
EmbedQueryOutcomes ==
    {EmbedReturns(v) : v \in QueryVectors} \cup {EmbedRaises(e) : e \in EmbedErrors}
RetrieverKs == (-1)..(MaxTexts + 1)

\* Vectors of up to MaxDim coordinates
RECURSIVE VectorsOfDim(_)
VectorsOfDim(d) ==
    IF d = 0 THEN {<<>>}
    ELSE {Append(v, c) : v \in VectorsOfDim(d - 1), c \in (-MaxCoord)..MaxCoord}
Vectors == UNION {VectorsOfDim(d) : d \in 1..MaxDim}

-----------------------------------------------------------------------------
(* WindowedChatMessageHistory.  Beside the object's two attributes the     *)
(* record keeps added, the messages passed to add_message since the object *)
(* was made or last cleared.                                               *)

MaxWindow == 3
MaxAdds == 4

NoHistory == [made |-> FALSE, window_size |-> 0, messages |-> <<>>, added |-> <<>>]

\* seq[-n:] for n >= 0: the last n elements, and the whole of seq when n is 0
\* (-0 is 0) or exceeds its length
LastSlice(seq, n) ==
    IF n = 0 \/ n >= Len(seq) THEN seq
    ELSE SubSeq(seq, Len(seq) - n + 1, Len(seq))

\* WindowedChatMessageHistory(window_size)
WindowedInit(window_size) ==
    [made |-> TRUE, window_size |-> window_size, messages |-> <<>>, added |-> <<>>]

\* self.add_message(message)
WindowedAddMessage(self, message) ==
    LET appended == Append(self.messages, message)
    IN  [self EXCEPT !.messages = IF Len(appended) > self.window_size
                                  THEN LastSlice(appended, self.window_size)
                                  ELSE appended,
                     !.added = Append(self.added, message)]

\* self.clear()
WindowedClear(self) == [self EXCEPT !.messages = <<>>, !.added = <<>>]

WindowSizes == 0..MaxWindow
ChatMessages == {"question", "answer", "summary"}

-----------------------------------------------------------------------------
(* ToolCallingAgent and SimpleAgentExecutor.  A run of invoke is followed  *)
(* one loop iteration at a time, each iteration holding one LLM call; the  *)
(* iteration that leaves the loop also computes the value returned.  A     *)
(* message is a record of its type, content, tool calls and tool-call id.  *)

MaxIterations == 2

AgentClasses == {"ToolCallingAgent", "SimpleAgentExecutor"}

HumanMsg(content) ==
    [type |-> "human", content |-> content, tool_calls |-> <<>>, tool_call_id |-> AbsentStr]
AIMsg(content, tool_calls) ==
    [type |-> "ai", content |-> content, tool_calls |-> tool_calls, tool_call_id |-> AbsentStr]
ToolMsg(content, tool_call_id) ==
    [type |-> "tool", content |-> content, tool_calls |-> <<>>, tool_call_id |-> tool_call_id]

\* One entry of response.tool_calls; id is AbsentStr when the entry has no "id"
ToolCall(name, id) == [name |-> name, id |-> id]

\* self.tools: the names of the tools the agent was given
AgentTools == {"calculator"}

\* What tool.invoke(args) does: returns result or raises error
ToolReturns(result) == [raises |-> FALSE, result |-> result, error |-> NoError]
ToolRaises(e) == [raises |-> TRUE, result |-> NoValue, error |-> e]

NoAgent ==
    [pc |-> "none", cls |-> "none", max_iterations |-> 0, iteration |-> 0,
     messages |-> <<>>, llm_calls |-> 0, output |-> NoValue, raised |-> NoError]

\* Lines 132-150 of ToolCallingAgent.invoke, for str contents:
\* messages[-1].content, or "No response" for no messages
FinalContent(messages) ==
    IF messages # <<>> THEN messages[Len(messages)].content ELSE "No response"

\* The run has left the loop: return {"output": ..., ...}
AgentReturns(run, messages) ==
    [run EXCEPT !.pc = "returned", !.messages = messages, !.output = FinalContent(messages)]

\* Lines 94-124: the messages after the tool calls of one response have been
\* processed; outcomes[i] is what the tool of the i-th call does when invoked
RECURSIVE ProcessToolCalls(_, _, _, _)
ProcessToolCalls(messages, tool_calls, outcomes, iteration) ==
    IF tool_calls = <<>> THEN messages
    ELSE LET tool_call == Head(tool_calls)
             tool_id == IF tool_call.id = AbsentStr
                        THEN "call_" \o ToString(iteration) ELSE tool_call.id
             outcome == Head(outcomes)
             next == IF tool_call.name \in AgentTools
                     THEN IF outcome.raises
                          THEN Append(messages,
                                      ToolMsg("Error executing " \o tool_call.name \o ": "
                                                  \o outcome.error, tool_id))
                          ELSE Append(messages, ToolMsg(outcome.result, tool_id))
                     ELSE messages
         IN  ProcessToolCalls(next, Tail(tool_calls), Tail(outcomes), iteration)

\* Variant: the loop goes on after a response without tool calls
ToolCallingAgentNoBreak(run, llm, outcomes) ==
    LET iteration == run.iteration + 1
        called == [run EXCEPT !.iteration = iteration, !.llm_calls = run.llm_calls + 1]
    IN  IF llm.raises THEN [called EXCEPT !.pc = "raised", !.raised = llm.error]
        ELSE LET response == llm.response
                 after == ProcessToolCalls(Append(run.messages, response),
                                           response.tool_calls, outcomes, iteration)
             IN  IF iteration < run.max_iterations
                 THEN [called EXCEPT !.messages = after]
                 ELSE AgentReturns(called, after)

\* One iteration of the while loop of ToolCallingAgent.invoke (lines 80-129),
\* and the return when the loop is left; llm is what self.llm.invoke does
ToolCallingAgentIteration(run, llm, outcomes) ==
    LET iteration == run.iteration + 1
        called == [run EXCEPT !.iteration = iteration, !.llm_calls = run.llm_calls + 1]
    IN  IF llm.raises THEN [called EXCEPT !.pc = "raised", !.raised = llm.error]
        ELSE LET response == llm.response
                 messages == Append(run.messages, response)
             IN  IF response.tool_calls # <<>>
                 THEN LET after == ProcessToolCalls(messages, response.tool_calls, outcomes,
                                                    iteration)
                      IN  IF iteration < run.max_iterations
                          THEN [called EXCEPT !.messages = after]
                          ELSE AgentReturns(called, after)
                 ELSE AgentReturns(called, messages)

\* One iteration of the for loop of SimpleAgentExecutor.invoke (lines 27-63),
\* and the return when the loop is left; only the first tool call is looked
\* at, and an exception of the tool leaves invoke
SimpleAgentExecutorIteration(run, llm, outcomes) ==
    LET iteration == run.iteration + 1
        called == [run EXCEPT !.iteration = iteration, !.llm_calls = run.llm_calls + 1]
    IN  IF llm.raises THEN [called EXCEPT !.pc = "raised", !.raised = llm.error]
        ELSE LET response == llm.response
                 messages == Append(run.messages, response)
             IN  IF response.tool_calls # <<>>
                 THEN LET tool_call == response.tool_calls[1]
                          outcome == outcomes[1]
                          tool_id == IF tool_call.id = AbsentStr THEN "1" ELSE tool_call.id
                      IN  IF tool_call.name \in AgentTools
                          THEN IF outcome.raises
                               THEN [called EXCEPT !.pc = "raised", !.messages = messages,
                                                   !.raised = outcome.error]
                               ELSE LET after == Append(messages,
                                                        ToolMsg(outcome.result, tool_id))
                                    IN  IF iteration < run.max_iterations
                                        THEN [called EXCEPT !.messages = after]
                                        ELSE AgentReturns(called, after)
                          ELSE AgentReturns(called, messages)
                 ELSE AgentReturns(called, messages)

AgentIterationCall(run, llm, outcomes) ==
    IF run.cls = "ToolCallingAgent" THEN ToolCallingAgentIteration(run, llm, outcomes)
    ELSE SimpleAgentExecutorIteration(run, llm, outcomes)

\* agent.invoke({"input": input}) up to the loop: with no iteration to make
\* the run returns at once
AgentInvokeCall(cls, max_iterations, input) ==
    LET run == [pc |-> "loop", cls |-> cls, max_iterations |-> max_iterations,
                iteration |-> 0, messages |-> <<HumanMsg(input)>>, llm_calls |-> 0,
                output |-> NoValue, raised |-> NoError]
    IN  IF 0 < max_iterations THEN run ELSE AgentReturns(run, run.messages)

\* Inputs of the agents
AgentInputs == {"What is 6 * 7?"}
IterationLimits == 0..MaxIterations
ToolCallLists ==
    { <<>>,
      <<ToolCall("calculator", "a")>>,
      <<ToolCall("calculator", AbsentStr)>>,
      <<ToolCall("unknown_tool", "b")>>,
      <<ToolCall("calculator", "a"), ToolCall("calculator", "b")>>,
      <<ToolCall("calculator", "a"), ToolCall("unknown_tool", "b")>> }
ResponseContents == {"", "The answer is 42"}
LLMOutcomes ==
    {[raises |-> FALSE, response |-> AIMsg(c, t), error |-> NoError] :
        c \in ResponseContents, t \in ToolCallLists}
    \cup {[raises |-> TRUE, response |-> AIMsg("", <<>>), error |-> "RateLimitError"]}
ToolOutcomes == {ToolReturns("42"), ToolRaises("ZeroDivisionError")}

-----------------------------------------------------------------------------
(* chain_retry = prompt_retry | model | safe_parser.  An invocation runs   *)
(* the model step and then the parser step under its retry; a text is a    *)
(* sequence of characters.                                                 *)

\* with_retry(stop_after_attempt=3)
StopAfterAttempt == 3

Whitespace == {" ", "\n", "\t"}

\* str.strip(): the text without its leading and trailing whitespace
RECURSIVE LStrip(_)
LStrip(text) ==
    IF text # <<>> /\ Head(text) \in Whitespace THEN LStrip(Tail(text)) ELSE text
RECURSIVE RStrip(_)
RStrip(text) ==
    IF text # <<>> /\ text[Len(text)] \in Whitespace
    THEN RStrip(SubSeq(text, 1, Len(text) - 1)) ELSE text
Strip(text) == RStrip(LStrip(text))

NoChain ==
    [pc |-> "none", fails |-> {}, attempt_count |-> 0, attempts |-> 0, llm_calls |-> 0,
     message |-> <<>>, result |-> <<>>, raised |-> NoError]

\* risky_parser(message): counts the attempt and fails on the attempts in
\* fails (the demo's parser: on attempt 1), otherwise returns the stripped text
RiskyParser(attempt_count, fails, message) ==
    LET count == attempt_count + 1
    IN  [attempt_count |-> count,
         raises |-> count \in fails,
         value |-> IF count \in fails THEN <<>> ELSE Strip(message)]

\* attempt_count[0] = 0; chain_retry.invoke({}): up to the model step
ChainInvokeCall(fails) ==
    [NoChain EXCEPT !.pc = "model", !.fails = fails]

\* The model step: one LLM call, whose exception leaves the chain
ModelStepCall(run, llm) ==
    IF llm.raises
    THEN [run EXCEPT !.pc = "raised", !.llm_calls = run.llm_calls + 1, !.raised = llm.error]
    ELSE [run EXCEPT !.pc = "parser", !.llm_calls = run.llm_calls + 1,
                     !.message = llm.content]

\* Variant: a failed attempt runs the chain again from the model step
SafeParserAttemptRestart(run) ==
    LET parsed == RiskyParser(run.attempt_count, run.fails, run.message)
        counted == [run EXCEPT !.attempt_count = parsed.attempt_count,
                               !.attempts = run.attempts + 1]
    IN  IF ~parsed.raises THEN [counted EXCEPT !.pc = "returned", !.result = parsed.value]
        ELSE IF counted.attempts < StopAfterAttempt THEN [counted EXCEPT !.pc = "model"]
        ELSE [counted EXCEPT !.pc = "raised", !.raised = "OutputParserException"]

\* One attempt of safe_parser on the model's message: the parser's value
\* ends the chain, its exception is retried until StopAfterAttempt attempts
\* have been made and is raised after the last
SafeParserAttempt(run) ==
    LET parsed == RiskyParser(run.attempt_count, run.fails, run.message)
        counted == [run EXCEPT !.attempt_count = parsed.attempt_count,
                               !.attempts = run.attempts + 1]
    IN  IF ~parsed.raises THEN [counted EXCEPT !.pc = "returned", !.result = parsed.value]
        ELSE IF counted.attempts < StopAfterAttempt THEN counted
        ELSE [counted EXCEPT !.pc = "raised", !.raised = "OutputParserException"]

\* Inputs of the chain
ParserFailures == SUBSET (1..(StopAfterAttempt + 1))
ModelTexts == {<<"H", "i">>, <<" ", "H", "i", "\n">>, <<"\t">>, <<"H", " ", "i", " ">>}
ModelOutcomes ==
    {[raises |-> FALSE, content |-> t, error |-> NoError] : t \in ModelTexts}
    \cup {[raises |-> TRUE, content |-> <<>>, error |-> "RateLimitError"]}

-----------------------------------------------------------------------------
(* run_all_demos.main: the header and the connection test, then one        *)
(* run_demo call after the other; the run_demo call of the last demo is    *)
(* followed by the completion banner and the end of main.                  *)

\* demos, in the order of the list in main
Demos ==
    << "1_demo_basic_invoke", "2_demo_parameter_tuning", "3_demo_advanced_parameters",
       "4_demo_prompt_techniques", "5_demo_prompt_iteration", "6_demo_structured_prompts",
       "7_demo_model_specific_templates", "8_demo_universal_template",
       "9_demo_format_constrained", "10_demo_context_grounded",
       "11_demo_structured_sections", "12_demo_streaming" >>

NoRunner ==
    [pc |-> "none", connected |-> FALSE, ran |-> <<>>, caught |-> {}, banner |-> FALSE,
     status |-> None]

\* test_connection(): True when get_llm() and llm.invoke(...) return, False
\* when either raises
TestConnection(connection) == ~connection.raises

\* main() up to the loop over the demos: print_header reads the configuration
\* (an exception of get_config leaves main and ends the process with status
\* 1), a failed connection test ends in sys.exit(1)
MainCall(config_raises, connection) ==
    IF config_raises THEN [NoRunner EXCEPT !.pc = "exited", !.status = 1]
    ELSE IF ~TestConnection(connection) THEN [NoRunner EXCEPT !.pc = "exited", !.status = 1]
    ELSE [NoRunner EXCEPT !.pc = "demos", !.connected = TRUE]

\* Variant: an exception of a demo leaves run_demo and main
RunDemoUncaught(run, outcome) ==
    LET demo == Demos[Len(run.ran) + 1]
        ran == Append(run.ran, demo)
    IN  IF outcome = "raises"
        THEN [run EXCEPT !.pc = "exited", !.ran = ran, !.status = 1]
        ELSE IF Len(ran) < Len(Demos) THEN [run EXCEPT !.ran = ran]
        ELSE [run EXCEPT !.pc = "exited", !.ran = ran, !.banner = TRUE, !.status = 0]

\* run_demo(demo) for the next demo of the list: the module is imported and
\* its main() called, or a warning printed when it has none; an exception of
\* the import or of main() is caught and printed.  After the last demo main
\* prints the banner and returns.
RunDemoCall(run, outcome) ==
    LET demo == Demos[Len(run.ran) + 1]
        ran == Append(run.ran, demo)
        caught == IF outcome = "raises" THEN run.caught \cup {demo} ELSE run.caught
    IN  IF Len(ran) < Len(Demos) THEN [run EXCEPT !.ran = ran, !.caught = caught]
        ELSE [run EXCEPT !.pc = "exited", !.ran = ran, !.caught = caught,
                         !.banner = TRUE, !.status = 0]

\* What a demo module does: main() returns, the module has no main, or the
\* import or main() raises an Exception
DemoOutcomes == {"returns", "no main", "raises"}
ConnectionOutcomes ==
    {[raises |-> FALSE, error |-> NoError], [raises |-> TRUE, error |-> "ConnectionError"],
     [raises |-> TRUE, error |-> "ValueError"]}

-----------------------------------------------------------------------------
(* get_config called from several threads.  The function holds no lock, so *)
(* a thread can be suspended between any two of its steps: the test of     *)
(* _config, the construction LLMConfig(), the assignment to _config, and   *)
(* the read of _config for the return.  A caller is a record of its place  *)
(* in the function, the instance it constructed and the one it returned.   *)

MaxThreads == 2

\* if _config is None: the caller goes on to construct, or to return
CheckStep(c) ==
    [pc |-> IF c = 0 THEN "create" ELSE "return", obj |-> 0, ret |-> 0, raised |-> NoError]

\* LLMConfig(): the new instance on the heap, held by the caller; a
\* construction that raises leaves get_config
CreateStep(cfgs, caller, provider, o, a, g) ==
    LET r == LLMConfigInit(provider, o, a, g)
    IN  IF r.raised = NoError
        THEN [configs |-> Append(cfgs, r.obj),
              caller |-> [caller EXCEPT !.pc = "assign", !.obj = Len(cfgs) + 1]]
        ELSE [configs |-> cfgs,
              caller |-> [caller EXCEPT !.pc = "raised", !.raised = r.raised]]

\* _config = <the new instance>
AssignStep(caller) ==
    [_config |-> caller.obj, caller |-> [caller EXCEPT !.pc = "return"]]

\* return _config
ReturnStep(c, caller) == [caller EXCEPT !.pc = "done", !.ret = c]

-----------------------------------------------------------------------------
(* Actions: one per constructor call or method call *)

NoCall == [op |-> "none"]
\* No caller of get_config yet
NoThreads == <<>>
NoArgs == [fn |-> "none"]
NoEnviron == [OPENAI_API_KEY |-> NoneStr, GOOGLE_API_KEY |-> NoneStr]
MaxTime == 1

\* Readings of time.time(): the system's wall clock, which may be set back
\* between two readings
Times == 0..MaxTime

\* OllamaProvider(...), OpenAIProvider(...), GeminiProvider(...)
Construct(args) ==
    /\ Len(adapters) < MaxAdapters
    /\ LET r == ConstructCall(adapters, clients, args)
       IN  /\ adapters' = r.adapters
           /\ clients' = r.clients
           /\ last' = [op |-> "construct", ret |-> r.ret]
    /\ UNCHANGED <<gen, config, env, configs, _config, pending, store, retriever, history, agent, chain, runner, threads>>

UpdateParameters(a, temperature, top_p, max_tokens) ==
    /\ Len(adapters) < MaxAdapters
    /\ LET r == UpdateParametersCall(adapters, clients, a, temperature, top_p, max_tokens)
       IN  /\ adapters' = r.adapters
           /\ clients' = r.clients
           /\ last' = [op |-> "update_parameters", self |-> a,
                       temperature |-> temperature, top_p |-> top_p,
                       max_tokens |-> max_tokens, ret |-> r.ret]
    /\ UNCHANGED <<gen, config, env, configs, _config, pending, store, retriever, history, agent, chain, runner, threads>>

GetModel(a) ==
    /\ last' = [op |-> "get_model", self |-> a, ret |-> GetModelCall(adapters, a)]
    /\ UNCHANGED <<adapters, clients, gen, config, env, configs, _config, pending, store, retriever, history, agent, chain, runner, threads>>

Invoke(a, prompt, backend) ==
    /\ LET r == InvokeCall(adapters[a], prompt, backend)
       IN  last' = [op |-> "invoke", self |-> a, prompt |-> prompt, backend |-> backend,
                    calls |-> r.calls, raised |-> r.raised, value |-> r.value]
    /\ UNCHANGED <<adapters, clients, gen, config, env, configs, _config, pending, store, retriever, history, agent, chain, runner, threads>>

InvokeWithMetadata(a, prompt, backend, t0, t1) ==
    /\ LET r == InvokeWithMetadataCall(adapters[a], prompt, backend, t0, t1)
       IN  last' = [op |-> "invoke_with_metadata", self |-> a, prompt |-> prompt,
                    backend |-> backend, t0 |-> t0, t1 |-> t1,
                    calls |-> r.calls, raised |-> r.raised, value |-> r.value]
    /\ UNCHANGED <<adapters, clients, gen, config, env, configs, _config, pending, store, retriever, history, agent, chain, runner, threads>>

Batch(a, prompts, backend) ==
    /\ LET r == BatchCall(adapters[a], prompts, backend)
       IN  last' = [op |-> "batch", self |-> a, prompts |-> prompts, backend |-> backend,
                    calls |-> r.calls, raised |-> r.raised, value |-> r.value]
    /\ UNCHANGED <<adapters, clients, gen, config, env, configs, _config, pending, store, retriever, history, agent, chain, runner, threads>>

Stream(a, prompt) ==
    /\ gen' = StreamCall(a, prompt)
    /\ last' = [op |-> "stream", self |-> a, prompt |-> prompt, calls |-> gen'.requests]
    /\ UNCHANGED <<adapters, clients, config, env, configs, _config, pending, store, retriever, history, agent, chain, runner, threads>>

\* next() on the generator; script is the backend's stream, fixed when the
\* backend stream is opened
GeneratorNext(script) ==
    /\ gen.pc # "none"
    /\ gen.pc = "created" \/ script = gen.backend
    /\ LET r == StreamNext(adapters, gen, script)
       IN  /\ gen' = r.gen
           /\ last' = [op |-> "next", pc |-> gen.pc,
                       calls |-> SubSeq(r.gen.requests, Len(gen.requests) + 1,
                                        Len(r.gen.requests)),
                       raised |-> r.raised, value |-> r.value]
    /\ UNCHANGED <<adapters, clients, config, env, configs, _config, pending, store, retriever, history, agent, chain, runner, threads>>

\* LLMConfig(provider=..., ...): a behaviour follows one configuration object,
\* from the first construction that succeeds
NewConfig(provider, o, a, g) ==
    /\ config = NoConfig
    /\ LET r == LLMConfigInit(provider, o, a, g)
       IN  /\ config' = IF r.raised = NoError THEN r.obj ELSE config
           /\ last' = [op |-> "LLMConfig", provider |-> provider, raised |-> r.raised]
    /\ UNCHANGED <<adapters, clients, gen, env, configs, _config, pending, store, retriever, history, agent, chain, runner, threads>>

\* config.provider = provider: assignments to a field are not validated
SetProvider(provider) ==
    /\ config # NoConfig
    /\ config' = [config EXCEPT !.provider = provider]
    /\ last' = [op |-> "set_provider", provider |-> provider, raised |-> NoError]
    /\ UNCHANGED <<adapters, clients, gen, env, configs, _config, pending, store, retriever, history, agent, chain, runner, threads>>

CreateProvider ==
    /\ config # NoConfig
    /\ Len(adapters) < MaxAdapters
    /\ LET r == CreateProviderCall(adapters, clients, config, env)
       IN  /\ adapters' = r.adapters
           /\ clients' = r.clients
           /\ last' = [op |-> "create_provider", raised |-> r.raised, ret |-> r.ret,
                       adapters |-> Len(adapters), clients |-> Len(clients)]
    /\ UNCHANGED <<gen, config, env, configs, _config, pending, store, retriever, history, agent, chain, runner, threads>>

\* get_config()
GetConfig(provider, o, a, g) ==
    /\ LET r == GetConfigCall(configs, _config, provider, o, a, g)
       IN  /\ configs' = r.configs
           /\ _config' = r._config
           /\ last' = [op |-> "get_config", raised |-> r.raised, config |-> r.ret]
    /\ UNCHANGED <<adapters, clients, gen, config, env, pending, store, retriever, history, agent, chain, runner, threads>>

\* get_llm()
GetLlm(provider, o, a, g) ==
    /\ Len(adapters) < MaxAdapters
    /\ LET r == GetLlmCall(adapters, clients, configs, _config, env, provider, o, a, g)
       IN  /\ adapters' = r.adapters
           /\ clients' = r.clients
           /\ configs' = r.configs
           /\ _config' = r._config
           /\ last' = [op |-> "get_llm", raised |-> r.raised, config |-> r.config,
                       ret |-> r.ret]
    /\ UNCHANGED <<gen, config, env, pending, store, retriever, history, agent, chain, runner, threads>>

\* print_token_usage(response_obj, start_time, end_time)
PrintTokenUsage ==
    /\ pending.fn = "print_token_usage"
    /\ last = NoCall
    /\ LET r == PrintTokenUsageCall(pending.response_obj, pending.start_time,
                                    pending.end_time)
       IN  last' = [op |-> "print_token_usage", raised |-> r.raised, printed |-> r.printed]
    /\ UNCHANGED <<adapters, clients, gen, config, env, configs, _config, pending, store,
                   retriever, history, agent, chain, runner, threads>>

\* vector_store = SimpleVectorStore(texts, embeddings_model)
BuildStore(texts, outcome) ==
    /\ ~store.built
    /\ LET r == SimpleVectorStoreInit(texts, outcome)
       IN  /\ store' = r.store
           /\ last' = [op |-> "SimpleVectorStore", texts |-> texts, calls |-> r.calls,
                       raised |-> r.raised]
    /\ UNCHANGED <<adapters, clients, gen, config, env, configs, _config, pending,
                   retriever, history, agent, chain, runner, threads>>

\* retriever = vector_store.as_retriever(k)
AsRetriever(k) ==
    /\ store.built
    /\ retriever' = AsRetrieverCall(k)
    /\ last' = [op |-> "as_retriever", k |-> k]
    /\ UNCHANGED <<adapters, clients, gen, config, env, configs, _config, pending, store, history, agent, chain, runner, threads>>

\* retriever.invoke(query)
RetrieverInvoke(query, outcome) ==
    /\ retriever.made
    /\ LET r == SimpleRetrieverInvoke(store, retriever.k, query, outcome)
       IN  /\ store' = r.store
           /\ last' = [op |-> "retriever.invoke", query |-> query, outcome |-> outcome,
                       calls |-> r.calls, raised |-> r.raised,
                       similarities |-> r.similarities, top_indices |-> r.top_indices,
                       value |-> r.value]
    /\ UNCHANGED <<adapters, clients, gen, config, env, configs, _config, pending,
                   retriever, history, agent, chain, runner, threads>>

\* One evaluation of cosine_similarity(vec1, vec2)
CosineSimilarityStep ==
    /\ pending.fn = "cosine_similarity"
    /\ last = NoCall
    /\ last' = [op |-> "cosine_similarity",
                value |-> CosineSimilarity(pending.vec1, pending.vec2)]
    /\ UNCHANGED <<adapters, clients, gen, config, env, configs, _config, pending, store,
                   retriever, history, agent, chain, runner, threads>>

\* windowed_store[session_id] = WindowedChatMessageHistory(window_size=...)
NewHistory(window_size) ==
    /\ ~history.made
    /\ history' = WindowedInit(window_size)
    /\ last' = [op |-> "WindowedChatMessageHistory", window_size |-> window_size]
    /\ UNCHANGED <<adapters, clients, gen, config, env, configs, _config, pending, store,
                   retriever, agent, chain, runner, threads>>

\* history.add_message(message)
AddMessage(message) ==
    /\ history.made
    /\ Len(history.added) < MaxAdds
    /\ history' = WindowedAddMessage(history, message)
    /\ last' = [op |-> "add_message", message |-> message]
    /\ UNCHANGED <<adapters, clients, gen, config, env, configs, _config, pending, store,
                   retriever, agent, chain, runner, threads>>

\* history.clear()
ClearHistory ==
    /\ history.made
    /\ history' = WindowedClear(history)
    /\ last' = [op |-> "clear"]
    /\ UNCHANGED <<adapters, clients, gen, config, env, configs, _config, pending, store,
                   retriever, agent, chain, runner, threads>>

\* agent.invoke({"input": input}), on an agent made with max_iterations
AgentInvoke(cls, max_iterations, input) ==
    /\ agent.pc = "none"
    /\ agent' = AgentInvokeCall(cls, max_iterations, input)
    /\ last' = [op |-> "agent.invoke"]
    /\ UNCHANGED <<adapters, clients, gen, config, env, configs, _config, pending, store,
                   retriever, history, chain, runner, threads>>

\* The next iteration of the running invoke
AgentIteration(llm, outcomes) ==
    /\ agent.pc = "loop"
    /\ agent' = AgentIterationCall(agent, llm, outcomes)
    /\ last' = [op |-> "agent.iteration", llm |-> llm, outcomes |-> outcomes]
    /\ UNCHANGED <<adapters, clients, gen, config, env, configs, _config, pending, store,
                   retriever, history, chain, runner, threads>>

\* attempt_count[0] = 0; result = chain_retry.invoke({})
ChainInvoke(fails) ==
    /\ chain.pc = "none"
    /\ chain' = ChainInvokeCall(fails)
    /\ last' = [op |-> "chain.invoke"]
    /\ UNCHANGED <<adapters, clients, gen, config, env, configs, _config, pending, store,
                   retriever, history, agent, runner, threads>>

\* The model step of the running chain
ModelStep(llm) ==
    /\ chain.pc = "model"
    /\ chain' = ModelStepCall(chain, llm)
    /\ last' = [op |-> "chain.model"]
    /\ UNCHANGED <<adapters, clients, gen, config, env, configs, _config, pending, store,
                   retriever, history, agent, runner, threads>>

\* The next attempt of the parser step of the running chain
ParserAttempt ==
    /\ chain.pc = "parser"
    /\ chain' = SafeParserAttempt(chain)
    /\ last' = [op |-> "chain.parser"]
    /\ UNCHANGED <<adapters, clients, gen, config, env, configs, _config, pending, store,
                   retriever, history, agent, runner, threads>>

\* python run_all_demos.py: main() up to the first demo
Main(config_raises, connection) ==
    /\ runner.pc = "none"
    /\ runner' = MainCall(config_raises, connection)
    /\ last' = [op |-> "main", connection |-> connection]
    /\ UNCHANGED <<adapters, clients, gen, config, env, configs, _config, pending, store,
                   retriever, history, agent, chain, threads>>

\* The next run_demo call of main
RunDemo(outcome) ==
    /\ runner.pc = "demos"
    /\ runner' = RunDemoCall(runner, outcome)
    /\ last' = [op |-> "run_demo", outcome |-> outcome]
    /\ UNCHANGED <<adapters, clients, gen, config, env, configs, _config, pending, store,
                   retriever, history, agent, chain, threads>>

\* A new caller enters get_config() and tests _config
GetConfigCheck ==
    /\ Len(threads) < MaxThreads
    /\ threads' = Append(threads, CheckStep(_config))
    /\ last' = [op |-> "get_config.check"]
    /\ UNCHANGED <<adapters, clients, gen, config, env, configs, _config, pending, store,
                   retriever, history, agent, chain, runner>>

\* Caller t constructs an LLMConfig
GetConfigCreate(t, provider, o, a, g) ==
    /\ threads[t].pc = "create"
    /\ LET r == CreateStep(configs, threads[t], provider, o, a, g)
       IN  /\ configs' = r.configs
           /\ threads' = [threads EXCEPT ![t] = r.caller]
    /\ last' = [op |-> "get_config.create"]
    /\ UNCHANGED <<adapters, clients, gen, config, env, _config, pending, store,
                   retriever, history, agent, chain, runner>>

\* Caller t assigns its instance to _config
GetConfigAssign(t) ==
    /\ threads[t].pc = "assign"
    /\ LET r == AssignStep(threads[t])
       IN  /\ _config' = r._config
           /\ threads' = [threads EXCEPT ![t] = r.caller]
    /\ last' = [op |-> "get_config.assign"]
    /\ UNCHANGED <<adapters, clients, gen, config, env, configs, pending, store,
                   retriever, history, agent, chain, runner>>

\* Caller t returns what _config holds
GetConfigReturn(t) ==
    /\ threads[t].pc = "return"
    /\ threads' = [threads EXCEPT ![t] = ReturnStep(_config, threads[t])]
    /\ last' = [op |-> "get_config.return"]
    /\ UNCHANGED <<adapters, clients, gen, config, env, configs, _config, pending, store,
                   retriever, history, agent, chain, runner>>

-----------------------------------------------------------------------------
(* Specifications *)

\* Spec: adapters built by their constructors and by update_parameters
Init ==
    /\ adapters = <<>>
    /\ clients = <<>>
    /\ gen = NoGen
    /\ last = NoCall
    /\ config = NoConfig
    /\ env = NoEnviron
    /\ configs = <<>>
    /\ _config = 0
    /\ pending = NoArgs
    /\ store = NoStore
    /\ retriever = NoRetriever
    /\ history = NoHistory
    /\ agent = NoAgent
    /\ chain = NoChain
    /\ runner = NoRunner
    /\ threads = NoThreads

Next ==
    \/ \E args \in ConstructorArgs : Construct(args)
    \/ \E a \in DOMAIN adapters, t \in TemperatureArgs, p \in TopPArgs, m \in MaxTokensArgs :
           UpdateParameters(a, t, p, m)
    \/ \E a \in DOMAIN adapters : GetModel(a)

Spec == Init /\ [][Next]_vars

\* One adapter, already constructed by one of the constructor calls in S
InitWith(S) ==
    /\ \E args \in S :
           LET r == ConstructCall(<<>>, <<>>, args)
           IN  adapters = r.adapters /\ clients = r.clients
    /\ gen = NoGen
    /\ last = NoCall
    /\ config = NoConfig
    /\ env = NoEnviron
    /\ configs = <<>>
    /\ _config = 0
    /\ pending = NoArgs
    /\ store = NoStore
    /\ retriever = NoRetriever
    /\ history = NoHistory
    /\ agent = NoAgent
    /\ chain = NoChain
    /\ runner = NoRunner
    /\ threads = NoThreads

InitOne == InitWith(ConstructorArgs)

\* SpecCalls: the calls on one adapter, with every prompt and every backend
\* behaviour; one stream, over backend streams of at most one chunk
\* (SpecStream has them all)
CallScripts == {s \in Scripts : s.chunks \in {<<>>, <<"He">>}}
CallStreamPrompts == {StrPrompt("hi")}

NextCalls ==
    \/ \E a \in DOMAIN adapters, prompt \in Prompts, backend \in InvokeBackends :
           Invoke(a, prompt, backend)
    \/ \E a \in DOMAIN adapters, prompt \in Prompts, backend \in InvokeBackends,
          t0 \in Times, t1 \in Times :
           InvokeWithMetadata(a, prompt, backend, t0, t1)
    \/ \E a \in DOMAIN adapters, prompts \in BatchInputs :
           \E backend \in BatchBackends(Len(prompts)) : Batch(a, prompts, backend)
    \/ \E a \in DOMAIN adapters, prompt \in CallStreamPrompts : Stream(a, prompt)
    \/ \E script \in CallScripts : GeneratorNext(script)

SpecCalls == InitOne /\ [][NextCalls]_vars

\* SpecStream: streaming from one adapter, with every backend stream
NextStream ==
    \/ \E a \in DOMAIN adapters, prompt \in Prompts : Stream(a, prompt)
    \/ \E script \in Scripts : GeneratorNext(script)

SpecStream == InitOne /\ [][NextStream]_vars

\* SpecFrame: every method, in any order, on an adapter and on the adapters
\* update_parameters makes from it; a few inputs per method
FramePrompts == {StrPrompt("hi"), ListPrompt(<<SystemMessage("be brief"), HumanMessage("hi")>>)}
FrameBackends == {Returns("Hello"), Raises("RateLimitError")}
FrameBatches == {<<"hi", "yo">>}
FrameScripts == {[chunks |-> <<"He", "llo">>, error |-> NoError],
                 [chunks |-> <<"He">>, error |-> "RateLimitError"]}

NextFrame ==
    \/ \E a \in DOMAIN adapters, t \in {None, 0} : UpdateParameters(a, t, None, None)
    \/ \E a \in DOMAIN adapters : GetModel(a)
    \/ \E a \in DOMAIN adapters, prompt \in FramePrompts, backend \in FrameBackends :
           Invoke(a, prompt, backend)
    \/ \E a \in DOMAIN adapters, backend \in FrameBackends :
           InvokeWithMetadata(a, StrPrompt("hi"), backend, 0, MaxTime)
    \/ \E a \in DOMAIN adapters, prompts \in FrameBatches :
           \E backend \in {b \in BatchBackends(Len(prompts)) :
                             b.error \in {NoError, "RateLimitError"}
                             /\ \A i \in DOMAIN b.responses : b.responses[i].content = "Hello"} :
               Batch(a, prompts, backend)
    \/ \E a \in DOMAIN adapters : Stream(a, StrPrompt("hi"))
    \/ \E script \in FrameScripts : GeneratorNext(script)

InitFrame == InitWith({args \in ConstructorArgs : args.max_tokens # None})

SpecFrame == InitFrame /\ [][NextFrame]_vars

\* The configuration resolver
InitConfig ==
    /\ adapters = <<>>
    /\ clients = <<>>
    /\ gen = NoGen
    /\ last = NoCall
    /\ config = NoConfig
    /\ env \in Environs
    /\ configs = <<>>
    /\ _config = 0
    /\ pending = NoArgs
    /\ store = NoStore
    /\ retriever = NoRetriever
    /\ history = NoHistory
    /\ agent = NoAgent
    /\ chain = NoChain
    /\ runner = NoRunner
    /\ threads = NoThreads

NextConfig ==
    \/ \E provider \in Selectors, o \in OllamaSettings, a \in OpenAISettings,
          g \in GeminiSettings : NewConfig(provider, o, a, g)
    \/ \E provider \in Selectors : SetProvider(provider)
    \/ CreateProvider

SpecConfig == InitConfig /\ [][NextConfig]_vars

\* The process-wide configuration: get_config and get_llm called in any order,
\* whatever settings the environment holds at each call
NextSingleton ==
    \/ \E provider \in Selectors, o \in OllamaSettings, a \in OpenAISettings,
          g \in GeminiSettings : GetConfig(provider, o, a, g)
    \/ \E provider \in Selectors, o \in OllamaSettings, a \in OpenAISettings,
          g \in GeminiSettings : GetLlm(provider, o, a, g)

SpecSingleton == InitConfig /\ [][NextSingleton]_vars

\* print_token_usage on one response object: every shape of usage_metadata
\* with a few of response_metadata, and every shape of response_metadata with a
\* few of usage_metadata
UsageResponses ==
    [usage_metadata : UsageShapes,
     response_metadata : {NoMetadata("missing"), NoMetadata("mapping")}]
    \cup [usage_metadata : {NoUsage("missing"), NoUsage("mapping"),
                            [NoUsage("mapping") EXCEPT !.input_tokens = Num(12)]},
          response_metadata : MetadataShapes]

InitUsage ==
    /\ adapters = <<>>
    /\ clients = <<>>
    /\ gen = NoGen
    /\ last = NoCall
    /\ config = NoConfig
    /\ env = NoEnviron
    /\ configs = <<>>
    /\ _config = 0
    /\ pending \in [fn : {"print_token_usage"}, response_obj : UsageResponses,
                     start_time : {None} \cup Times, end_time : {None} \cup Times]
    /\ store = NoStore
    /\ retriever = NoRetriever
    /\ history = NoHistory
    /\ agent = NoAgent
    /\ chain = NoChain
    /\ runner = NoRunner
    /\ threads = NoThreads

NextUsage == PrintTokenUsage

SpecUsage == InitUsage /\ [][NextUsage]_vars

\* One store, the retrievers made from it, and their queries
NextRetriever ==
    \/ \E texts \in TextLists : \E outcome \in EmbedDocumentsOutcomes(texts) :
           BuildStore(texts, outcome)
    \/ \E k \in RetrieverKs : AsRetriever(k)
    \/ \E query \in Queries, outcome \in EmbedQueryOutcomes : RetrieverInvoke(query, outcome)

SpecRetriever == Init /\ [][NextRetriever]_vars

\* cosine_similarity on one pair of vectors
InitCosine ==
    /\ adapters = <<>>
    /\ clients = <<>>
    /\ gen = NoGen
    /\ last = NoCall
    /\ config = NoConfig
    /\ env = NoEnviron
    /\ configs = <<>>
    /\ _config = 0
    /\ pending \in [fn : {"cosine_similarity"}, vec1 : Vectors, vec2 : Vectors]
    /\ store = NoStore
    /\ retriever = NoRetriever
    /\ history = NoHistory
    /\ agent = NoAgent
    /\ chain = NoChain
    /\ runner = NoRunner
    /\ threads = NoThreads

NextCosine == CosineSimilarityStep

SpecCosine == InitCosine /\ [][NextCosine]_vars

\* One windowed history: add_message and clear in any order
NextHistory ==
    \/ \E window_size \in WindowSizes : NewHistory(window_size)
    \/ \E message \in ChatMessages : AddMessage(message)
    \/ ClearHistory

SpecHistory == Init /\ [][NextHistory]_vars

\* One run of an agent's invoke; the LLM call of an iteration returns or
\* raises, so a run in its loop makes its next iteration
NextAgent ==
    \/ \E cls \in AgentClasses, max_iterations \in IterationLimits, input \in AgentInputs :
           AgentInvoke(cls, max_iterations, input)
    \/ \E llm \in LLMOutcomes :
           \E outcomes \in [1..Len(llm.response.tool_calls) -> ToolOutcomes] :
               AgentIteration(llm, outcomes)

SpecAgent == Init /\ [][NextAgent]_vars /\ WF_vars(NextAgent)

\* One invocation of chain_retry
NextChain ==
    \/ \E fails \in ParserFailures : ChainInvoke(fails)
    \/ \E llm \in ModelOutcomes : ModelStep(llm)
    \/ ParserAttempt

SpecChain == Init /\ [][NextChain]_vars

\* One run of run_all_demos.py; a demo returns or raises, so main goes on to
\* its next step
NextRunner ==
    \/ \E config_raises \in BOOLEAN, connection \in ConnectionOutcomes :
           Main(config_raises, connection)
    \/ \E outcome \in DemoOutcomes : RunDemo(outcome)

SpecRunner == Init /\ [][NextRunner]_vars /\ WF_vars(NextRunner)

\* The settings found when no API key is configured
KeylessOpenAISettings == {a \in OpenAISettings : a.openai_api_key = NoneStr}
KeylessGeminiSettings == {g \in GeminiSettings : g.gemini_api_key = NoneStr}

\* Up to MaxThreads callers of get_config, their steps interleaved in every
\* way
NextThreads ==
    \/ GetConfigCheck
    \/ \E t \in DOMAIN threads, provider \in Selectors, o \in OllamaSettings,
          a \in KeylessOpenAISettings, g \in KeylessGeminiSettings :
           GetConfigCreate(t, provider, o, a, g)
    \/ \E t \in DOMAIN threads : GetConfigAssign(t)
    \/ \E t \in DOMAIN threads : GetConfigReturn(t)

SpecThreads == Init /\ [][NextThreads]_vars

-----------------------------------------------------------------------------
(* Properties *)

\* The attribute of an adapter that holds its token limit
MaxTokensOf(x) ==
    CASE x.cls = "OllamaProvider" -> x.num_predict
      [] x.cls = "OpenAIProvider" -> x.max_tokens
      [] x.cls = "GeminiProvider" -> x.max_output_tokens

\* The attributes an adapter of class cls does not have
OtherLimitsAbsent(x) ==
    CASE x.cls = "OllamaProvider" -> x.max_tokens = Absent /\ x.max_output_tokens = Absent
      [] x.cls = "OpenAIProvider" -> x.num_predict = Absent /\ x.max_output_tokens = Absent
      [] x.cls = "GeminiProvider" -> x.num_predict = Absent /\ x.max_tokens = Absent

Given(arg, old) == IF arg # None THEN arg ELSE old

\* C1: update_parameters(temperature, top_p, max_tokens) returns an adapter of
\* the receiver's class in which each parameter that was given (is not None)
\* has the given value, the token limit in the class's own attribute, and each
\* parameter not given, the model, the endpoint and the API key are the
\* receiver's.
C1_UpdateParametersOverrides ==
    last.op = "update_parameters" =>
        LET old == adapters[last.self]
            new == adapters[last.ret]
        IN  /\ new.cls = old.cls
            /\ new.temperature = Given(last.temperature, old.temperature)
            /\ new.top_p = Given(last.top_p, old.top_p)
            /\ MaxTokensOf(new) = Given(last.max_tokens, MaxTokensOf(old))
            /\ OtherLimitsAbsent(new)
            /\ new.model_name = old.model_name
            /\ new.base_url = old.base_url
            /\ new.api_key = old.api_key

\* A Gemini adapter with a token limit of 64 was given a new temperature only
C1_Witness ==
    /\ last.op = "update_parameters"
    /\ last.temperature = 10 /\ last.top_p = None /\ last.max_tokens = None
    /\ adapters[last.self].cls = "GeminiProvider"
    /\ adapters[last.self].max_output_tokens = 64
    /\ adapters[last.ret].temperature = 10
    /\ adapters[last.ret].max_output_tokens = 64

ObservableConfig(x) ==
    [cls |-> x.cls, model |-> x.model_name, endpoint |-> x.base_url,
     temperature |-> x.temperature, top_p |-> x.top_p, max_tokens |-> MaxTokensOf(x)]

\* C2: update_parameters() with no argument returns another instance than the
\* receiver, with a client of its own constructed by the call, whose model,
\* endpoint, temperature, top-p and token limit are the receiver's (so a chain
\* of such calls never changes them).
C2_UpdateParametersNoArgs ==
    (/\ last.op = "update_parameters"
     /\ last.temperature = None /\ last.top_p = None /\ last.max_tokens = None) =>
        /\ last.ret # last.self
        /\ last.ret \in DOMAIN adapters
        /\ adapters[last.ret].llm = Len(clients)
        /\ \A b \in DOMAIN adapters : b # last.ret => adapters[b].llm # adapters[last.ret].llm
        /\ ObservableConfig(adapters[last.ret]) = ObservableConfig(adapters[last.self])

\* update_parameters() was applied to the result of update_parameters(), whose
\* receiver was constructed with every argument given
C2_Witness ==
    /\ last.op = "update_parameters"
    /\ last.temperature = None /\ last.top_p = None /\ last.max_tokens = None
    /\ last.self = 2 /\ last.ret = 3
    /\ adapters[1].temperature = 20
    /\ ObservableConfig(adapters[2]) = ObservableConfig(adapters[1])
    /\ ObservableConfig(adapters[3]) = ObservableConfig(adapters[1])

\* The messages a prompt stands for, as the backend should receive them
Conversation(prompt) ==
    IF prompt.str THEN <<[type |-> "human", content |-> prompt.val]>> ELSE prompt.val

\* No step changes an adapter that exists, or the client it was built with
AdaptersFrozen ==
    \A a \in DOMAIN adapters :
        /\ a \in DOMAIN adapters'
        /\ adapters'[a] = adapters[a]
        /\ adapters[a].llm \in DOMAIN clients'
        /\ clients'[adapters[a].llm] = clients[adapters[a].llm]

\* get_model returns the receiver's client, which no other adapter has; each
\* call sends one request, to the receiver's client, made of the call's prompt
StatelessCalls ==
    /\ last.op = "get_model" =>
          /\ last.ret = adapters[last.self].llm
          /\ last.ret \in DOMAIN clients
          /\ \A b \in DOMAIN adapters : b # last.self => adapters[b].llm # last.ret
    /\ last.op \in {"invoke", "invoke_with_metadata"} =>
          last.calls = <<[client |-> adapters[last.self].llm, method |-> "invoke",
                          input |-> Conversation(last.prompt)]>>
    /\ last.op = "batch" =>
          last.calls = <<[client |-> adapters[last.self].llm, method |-> "batch",
                          input |-> [i \in 1..Len(last.prompts) |->
                                        <<[type |-> "human", content |-> last.prompts[i]]>>]]>>
    /\ last.op = "stream" => last.calls = <<>>
    /\ gen.pc \in {"suspended", "done"} =>
          gen.requests = <<[client |-> adapters[gen.self].llm, method |-> "stream",
                            input |-> Conversation(gen.prompt)]>>

\* C3: an adapter's state is fixed at construction: no call (invoke, stream and
\* its consumption, batch, invoke_with_metadata, get_model, update_parameters)
\* changes the attributes of an existing adapter or its client; get_model
\* returns that client; and the request a call sends is made of that call's
\* prompt alone.
C3_AdapterStateFixed == [][AdaptersFrozen]_vars /\ []StatelessCalls

\* invoke on the first adapter, after update_parameters made a second one from
\* it and while a stream from it is being consumed
C3_Witness ==
    /\ last.op = "invoke" /\ last.self = 1
    /\ Len(adapters) >= 2
    /\ adapters[2].temperature # adapters[1].temperature
    /\ gen.pc = "suspended" /\ gen.self = 1

\* C4: invoke(s) with a str s sends the backend client the request that invoke
\* with the one-element list [human message s] sends, namely that list; a list
\* of messages is sent as it is; and what invoke returns is the content of the
\* backend's response.
C4_InvokeWrapsStr ==
    last.op = "invoke" =>
        LET self == adapters[last.self]
        IN  /\ last.prompt.str =>
                  /\ last.calls = <<[client |-> self.llm, method |-> "invoke",
                                     input |-> <<[type |-> "human",
                                                  content |-> last.prompt.val]>>]>>
                  /\ \A b \in InvokeBackends :
                        InvokeCall(self, ListPrompt(<<HumanMessage(last.prompt.val)>>), b).calls
                            = last.calls
            /\ ~last.prompt.str =>
                  last.calls = <<[client |-> self.llm, method |-> "invoke",
                                  input |-> last.prompt.val]>>
            /\ ~last.backend.raises =>
                  last.raised = NoError /\ last.value = last.backend.response.content

\* invoke("yo") on an OpenAI adapter returned the backend's "Hello"
C4_Witness ==
    /\ last.op = "invoke"
    /\ adapters[last.self].cls = "OpenAIProvider"
    /\ last.prompt = StrPrompt("yo")
    /\ last.calls[1].input = <<HumanMessage("yo")>>
    /\ last.value = "Hello"

\* C5: batch(prompts) makes one batch call to the backend client, whose input
\* is the list of the prompts each wrapped as a one-element list of a human
\* message, and returns one text per prompt, the i-th being the content of the
\* backend's i-th response (the backend returning one response per input).
C5_BatchInOrder ==
    last.op = "batch" =>
        /\ last.calls = <<[client |-> adapters[last.self].llm, method |-> "batch",
                           input |-> [i \in 1..Len(last.prompts) |->
                                         <<[type |-> "human", content |-> last.prompts[i]]>>]]>>
        /\ ~last.backend.raises =>
              /\ last.raised = NoError
              /\ Len(last.value) = Len(last.prompts)
              /\ \A i \in 1..Len(last.prompts) :
                    last.value[i] = last.backend.responses[i].content

\* batch of two prompts on an OpenAI adapter, the backend answering "Hello", ""
C5_Witness ==
    /\ last.op = "batch"
    /\ adapters[last.self].cls = "OpenAIProvider"
    /\ last.prompts = <<"hi", "yo">>
    /\ last.value = <<"Hello", "">>

NonEmpty(frag) == frag # ""

\* C6: what a stream has yielded is exactly the non-empty fragments among those
\* read from the backend so far, in the backend's order; an empty fragment is
\* skipped and does not end the stream, so a stream that ended without error
\* yielded all the non-empty fragments and their concatenation is the
\* concatenation of all the backend produced (["He", "llo"] gives "He", "llo",
\* together "Hello").
C6_StreamYieldsNonEmpty ==
    gen.pc \in {"suspended", "done"} =>
        LET read == SubSeq(gen.backend.chunks, 1, gen.pos)
        IN  /\ gen.yielded = SelectSeq(read, NonEmpty)
            /\ \A i \in DOMAIN gen.yielded : gen.yielded[i] # ""
            /\ Concat(gen.yielded) = Concat(read)
            /\ (gen.pc = "suspended" /\ last.op = "next") =>
                  last.value = gen.backend.chunks[gen.pos]
            /\ (gen.pc = "done" /\ gen.backend.error = NoError) =>
                  /\ gen.pos = Len(gen.backend.chunks)
                  /\ (gen.backend.chunks = <<"He", "llo">>) =>
                        (gen.yielded = <<"He", "llo">> /\ Concat(gen.yielded) = "Hello")

\* The backend produced "He", "", "llo" and the stream ended, having yielded
\* "He" and "llo"
C6_Witness ==
    /\ gen.pc = "done"
    /\ gen.backend = [chunks |-> <<"He", "", "llo">>, error |-> NoError]
    /\ gen.yielded = <<"He", "llo">>
    /\ Concat(gen.yielded) = "Hello"

\* Until the first next() no backend request exists and nothing was read; a
\* generator makes at most one backend request
StreamLazy ==
    /\ gen.pc = "created" => gen.requests = <<>> /\ gen.pos = 0 /\ gen.yielded = <<>>
    /\ last.op = "stream" => gen.pc = "created"
    /\ Len(gen.requests) <= 1
    /\ gen.pc \in {"suspended", "done"} => Len(gen.requests) = 1

\* Backend chunks are read, and the backend request made, by next() only; each
\* next() that yields has read at least one; next() on a finished generator
\* raises StopIteration, reads nothing and makes no request
StreamPullDriven ==
    /\ (gen'.pos # gen.pos \/ gen'.requests # gen.requests) =>
          last'.op = "next" \/ (last'.op = "stream" /\ gen'.pc = "created")
    /\ (last'.op = "next" /\ gen.pc = "created") => Len(last'.calls) = 1
    /\ (last'.op = "next" /\ gen.pc = "suspended") => last'.calls = <<>>
    /\ (last'.op = "next" /\ gen.pc = "done") =>
          /\ gen' = gen
          /\ last'.calls = <<>>
          /\ last'.value = NoValue
          /\ last'.raised = StopIteration

\* C7: stream is lazy and pull-driven: calling it makes no backend request;
\* the first next() makes the one backend request of the generator; backend
\* fragments are read during next() only; and next() on an exhausted generator
\* yields nothing and makes no request.
C7_StreamLazyPull == []StreamLazy /\ [][StreamPullDriven]_vars

\* next() was called on a generator that had ended after yielding two fragments
C7_Witness ==
    /\ last.op = "next" /\ last.pc = "done"
    /\ gen.pc = "done"
    /\ Len(gen.yielded) = 2
    /\ Len(gen.requests) = 1

\* C8: when the backend client raises during invoke, invoke_with_metadata or
\* batch, or while a stream is consumed, the call raises that same error, has
\* made exactly one backend call, and returns no value.
C8_ErrorsPropagate ==
    /\ (last.op \in {"invoke", "invoke_with_metadata", "batch"} /\ last.backend.raises) =>
          /\ last.raised = last.backend.error
          /\ Len(last.calls) = 1
          /\ last.value = NoValue
    /\ (/\ last.op = "next" /\ last.pc \in {"created", "suspended"}
        /\ gen.pc = "done" /\ gen.backend.error # NoError) =>
          /\ last.raised = gen.backend.error
          /\ Len(gen.requests) = 1
          /\ last.value = NoValue

\* The backend raised RateLimitError after one fragment of a stream
C8_Witness ==
    /\ last.op = "next" /\ last.pc = "suspended"
    /\ gen.backend = [chunks |-> <<"He">>, error |-> "RateLimitError"]
    /\ last.raised = "RateLimitError"

\* C9: a provider selector that is not "ollama", "openai" or "gemini" fails
\* with a configuration error when the configuration is resolved: LLMConfig
\* with such a selector raises and yields no configuration, and create_provider
\* on a configuration whose selector holds such a value raises, having
\* constructed no adapter and no backend client.
C9_UnknownProviderFailsFast ==
    /\ (last.op = "LLMConfig" /\ last.provider \notin {"ollama", "openai", "gemini"}) =>
          last.raised = ValidationError /\ config = NoConfig
    /\ (config # NoConfig /\ last.op = "LLMConfig") =>
          config.provider \in {"ollama", "openai", "gemini"}
    /\ (last.op = "create_provider" /\ config.provider \notin {"ollama", "openai", "gemini"}) =>
          /\ last.raised = ValueError
          /\ last.ret = 0
          /\ Len(adapters) = last.adapters
          /\ Len(clients) = last.clients
    /\ (last.op = "create_provider" /\ last.raised = NoError) =>
          config.provider \in {"ollama", "openai", "gemini"}

\* create_provider raised on a configuration whose selector had been assigned
\* "unknown_value"; an adapter made before that assignment is all there is
C9_Witness ==
    /\ last.op = "create_provider"
    /\ config.provider = "unknown_value"
    /\ last.raised = ValueError
    /\ Len(adapters) = 1 /\ Len(clients) = 1

\* The adapter create_provider builds from a configuration and environment
Built(cfg, environ) == CreateProviderCall(<<>>, <<>>, cfg, environ).adapters[1]

\* C10: create_provider returns the adapter class named by the selector, built
\* with that provider's configured model, endpoint, temperature, top-p and
\* token limit; the settings of the other two providers have no influence.
C10_CreateProviderSelected ==
    (last.op = "create_provider" /\ last.raised = NoError) =>
        LET new == adapters[last.ret]
        IN  /\ config.provider = "ollama" =>
                  /\ new.cls = "OllamaProvider"
                  /\ new.model_name = config.ollama_model
                  /\ new.base_url = config.ollama_base_url
                  /\ new.temperature = config.ollama_temperature
                  /\ new.top_p = config.ollama_top_p
                  /\ new.num_predict = config.ollama_num_predict
                  /\ \A a \in OpenAISettings, g \in GeminiSettings, e \in Environs :
                        Built(Merge(a, Merge(g, config)), e) = [new EXCEPT !.llm = 1]
            /\ config.provider = "openai" =>
                  /\ new.cls = "OpenAIProvider"
                  /\ new.model_name = config.openai_model
                  /\ new.base_url = config.openai_base_url
                  /\ new.temperature = config.openai_temperature
                  /\ new.top_p = config.openai_top_p
                  /\ new.max_tokens = config.openai_max_tokens
                  /\ \A o \in OllamaSettings, g \in GeminiSettings :
                        Built(Merge(o, Merge(g, config)), env) = [new EXCEPT !.llm = 1]
            /\ config.provider = "gemini" =>
                  /\ new.cls = "GeminiProvider"
                  /\ new.model_name = config.gemini_model
                  /\ new.base_url = AbsentStr
                  /\ new.temperature = config.gemini_temperature
                  /\ new.top_p = config.gemini_top_p
                  /\ new.max_output_tokens = config.gemini_max_output_tokens
                  /\ \A o \in OllamaSettings, a \in OpenAISettings :
                        Built(Merge(o, Merge(a, config)), env) = [new EXCEPT !.llm = 1]

\* create_provider built a Gemini adapter from a configuration whose OpenAI
\* and Ollama settings differ from the Gemini ones
C10_Witness ==
    /\ last.op = "create_provider" /\ last.raised = NoError
    /\ config.provider = "gemini"
    /\ config.gemini_temperature = 40
    /\ config.openai_temperature = 30
    /\ config.ollama_temperature = 20
    /\ adapters[last.ret].cls = "GeminiProvider"
    /\ adapters[last.ret].temperature = 40

\* The key the configuration resolves to: the configured value when it is set
\* (neither None nor empty), otherwise what os.getenv gives
ResolvedKey(explicit, environ_value) ==
    IF explicit # NoneStr /\ explicit # "" THEN explicit ELSE environ_value

\* C11: for the openai and gemini providers, create_provider hands the adapter
\* the configured API key when one is set, otherwise the value of
\* OPENAI_API_KEY / GOOGLE_API_KEY, otherwise None; a key that is a non-empty
\* string reaches the backend client, with None the client is constructed
\* without a key argument, and in every case create_provider returns an
\* adapter without raising.
C11_ApiKeyPrecedence ==
    (last.op = "create_provider" /\ config.provider \in {"openai", "gemini"}) =>
        LET explicit == IF config.provider = "openai" THEN config.openai_api_key
                        ELSE config.gemini_api_key
            environ_value == IF config.provider = "openai" THEN env.OPENAI_API_KEY
                             ELSE env.GOOGLE_API_KEY
            key == ResolvedKey(explicit, environ_value)
        IN  /\ last.raised = NoError
            /\ last.ret \in DOMAIN adapters
            /\ adapters[last.ret].api_key = key
            /\ key = NoneStr => clients[adapters[last.ret].llm].api_key = AbsentStr
            /\ (key # NoneStr /\ key # "") => clients[adapters[last.ret].llm].api_key = key

\* With OPENAI_API_KEY set and GOOGLE_API_KEY unset, one configuration with an
\* OpenAI key and no Gemini key has built an OpenAI adapter holding the
\* configured key and then a Gemini adapter whose client got no key
C11_Witness ==
    /\ last.op = "create_provider" /\ last.raised = NoError
    /\ env.OPENAI_API_KEY = "sk-env" /\ env.GOOGLE_API_KEY = NoneStr
    /\ config.openai_api_key = "sk-1" /\ config.gemini_api_key = NoneStr
    /\ config.provider = "gemini"
    /\ Len(adapters) = 2
    /\ adapters[1].cls = "OpenAIProvider" /\ adapters[1].api_key = "sk-1"
    /\ clients[adapters[1].llm].api_key = "sk-1"
    /\ adapters[2].cls = "GeminiProvider" /\ adapters[2].api_key = NoneStr
    /\ clients[adapters[2].llm].api_key = AbsentStr

\* get_config and get_llm hand out the one instance
OneInstance ==
    /\ Len(configs) <= 1
    /\ _config \in {0} \cup DOMAIN configs
    /\ (last.op \in {"get_config", "get_llm"} /\ last.raised = NoError) =>
           (last.config = 1 /\ _config = 1)

\* The instance is made by the first call that returns and is kept, unchanged,
\* by every later call
InstanceKept ==
    /\ _config # 0 => (_config' = _config /\ configs' = configs)
    /\ (_config = 0 /\ last'.op \in {"get_config", "get_llm"} /\ last'.raised = NoError) =>
           (configs = <<>> /\ Len(configs') = 1)

\* get_llm returns a new adapter (and client), built from the instance
NewAdapterPerGetLlm ==
    (last'.op = "get_llm" /\ last'.raised = NoError) =>
        /\ last'.ret = Len(adapters) + 1
        /\ adapters' = Append(adapters,
                           [Built(configs'[1], env) EXCEPT !.llm = Len(clients) + 1])
        /\ Len(clients') = Len(clients) + 1

\* C12: get_config constructs an LLMConfig only while _config is None; every
\* call of get_config or get_llm that returns uses that one instance, no call
\* replaces or changes it once it exists, and each get_llm that returns has
\* built one new adapter from it.
C12_ConfigSingleton ==
    /\ []OneInstance
    /\ [][InstanceKept]_vars
    /\ [][NewAdapterPerGetLlm]_vars

\* The second adapter get_llm built, both from the one instance
C12_Witness ==
    /\ last.op = "get_llm" /\ last.raised = NoError /\ last.config = 1
    /\ Len(configs) = 1 /\ _config = 1
    /\ Len(adapters) = 2 /\ last.ret = 2
    /\ adapters[1].llm = 1 /\ adapters[2].llm = 2
    /\ [adapters[2] EXCEPT !.llm = 1] = adapters[1]

\* invoke_with_metadata makes the one backend call invoke makes for the same
\* prompt and returns that response's content, the response and the two clock
\* readings
InvokeWithMetadataShape ==
    last.op = "invoke_with_metadata" =>
        LET self == adapters[last.self]
        IN  /\ Len(last.calls) = 1
            /\ last.calls[1].client = self.llm
            /\ last.calls[1].method = "invoke"
            /\ last.calls[1].input = (IF last.prompt.str
                                      THEN <<[type |-> "human", content |-> last.prompt.val]>>
                                      ELSE last.prompt.val)
            /\ last.calls = InvokeCall(self, last.prompt, last.backend).calls
            /\ ~last.backend.raises =>
                  /\ last.raised = NoError
                  /\ last.value = <<last.backend.response.content, last.backend.response,
                                    last.t0, last.t1>>

\* C13: invoke_with_metadata(prompt) makes exactly one backend invoke call,
\* with a str prompt wrapped as invoke wraps it, and returns the content of
\* that call's response, the response itself, the clock reading taken before
\* the call and the one taken after it, the first being at most the second.
C13_InvokeWithMetadataOnce ==
    /\ InvokeWithMetadataShape
    /\ (last.op = "invoke_with_metadata" /\ last.raised = NoError) =>
           last.value[3] <= last.value[4]

\* The response object has none of the shapes print_token_usage fails on
WellFormedUsage(response_obj) ==
    LET usage == response_obj.usage_metadata
        metadata == response_obj.response_metadata
    IN  /\ usage.output_token_details.kind # "none"
        /\ usage.output_token_details.reasoning.kind \in {"absent", "num"}
        /\ metadata.kind # "none"
        /\ metadata.timing.kind # "none"

\* On such a response print_token_usage prints its line, with "Tokens: N/A"
\* for no usage and 0 for a count the usage lacks
UsageDegrades ==
    (last.op = "print_token_usage" /\ WellFormedUsage(pending.response_obj)) =>
        LET usage == pending.response_obj.usage_metadata
        IN  /\ last.raised = NoError
            /\ Len(last.printed) >= 1
            /\ ~UsageTruthy(usage) =>
                  last.printed[1] = [label |-> "Tokens", format |-> "", value |-> NotAvailable]
            /\ UsageTruthy(usage) =>
                  /\ last.printed[1].label = "In"
                  /\ last.printed[2].label = "Out"
                  /\ last.printed[3].label = "Total"
                  /\ usage.input_tokens.kind = "absent" => last.printed[1].value = Num(0)
                  /\ usage.output_tokens.kind = "absent" => last.printed[2].value = Num(0)
                  /\ usage.total_tokens.kind = "absent" => last.printed[3].value = Num(0)

\* C14: print_token_usage returns without raising for every shape of response
\* object: usage_metadata or response_metadata missing, None, or a mapping
\* without some of the keys, a None output_token_details or timing entry
\* included; it prints "Tokens: N/A" when there is no usage.
C14_UsageBestEffort ==
    last.op = "print_token_usage" =>
        /\ last.raised = NoError
        /\ Len(last.printed) >= 1
        /\ ~UsageTruthy(pending.response_obj.usage_metadata) =>
              last.printed[1].value = NotAvailable

\* The latest call was a query that returned, by a retriever whose k is not
\* negative
Answered ==
    last.op = "retriever.invoke" /\ last.raised = NoError /\ retriever.k >= 0

\* min(k, n)
Min(k, n) == IF k <= n THEN k ELSE n

\* C15: a query on a store of n texts by a retriever with 0 <= k <= n returns
\* exactly k documents, and with k > n all n; the documents are the texts of
\* distinct entries of the store, in order of non-increasing similarity to the
\* query, and no entry left out is strictly more similar than one returned.
C15_TopKRanked ==
    Answered =>
        LET n == Len(store.texts)
            k == retriever.k
            top == last.top_indices
            sim == last.similarities
        IN  /\ k <= n => Len(last.value) = k
            /\ k > n => Len(last.value) = n
            /\ Len(top) = Len(last.value)
            /\ \A i \in DOMAIN top :
                  /\ top[i] \in 1..n
                  /\ last.value[i] = [page_content |-> store.texts[top[i]]]
            /\ \A i, j \in DOMAIN top : i < j =>
                  /\ top[i] # top[j]
                  /\ ~Greater(sim[top[j]], sim[top[i]])
            /\ \A o \in 1..n : (\A i \in DOMAIN top : top[i] # o) =>
                  \A i \in DOMAIN top : ~Greater(sim[o], sim[top[i]])

\* Corpus apple, banana, car embedded as (0,1), (1,0), (-1,0); the query,
\* embedded as (2,1), with k = 2 returned banana and then apple
C15_Witness ==
    /\ Answered
    /\ retriever.k = 2
    /\ store.texts = <<"apple", "banana", "car">>
    /\ store.embeddings = <<(<<0, 1>>), (<<1, 0>>), (<<-1, 0>>)>>
    /\ last.query = "fruit"
    /\ last.outcome.value = <<2, 1>>
    /\ last.value = <<[page_content |-> "banana"], [page_content |-> "apple"]>>

\* C16: when the query's embedding or a stored embedding is all zeros, the
\* similarity computed for that pair is exactly 0 and the query raises
\* nothing; it returns min(k, n) documents all the same.
C16_ZeroNormIsZero ==
    (last.op = "retriever.invoke" /\ ~last.outcome.raises) =>
        /\ last.raised = NoError
        /\ Len(last.similarities) = Len(store.embeddings)
        /\ \A i \in DOMAIN store.embeddings :
              (\/ \A c \in DOMAIN last.outcome.value : last.outcome.value[c] = 0
               \/ \A c \in DOMAIN store.embeddings[i] : store.embeddings[i][c] = 0)
              => last.similarities[i] = [num |-> 0, den |-> 1]
        /\ retriever.k >= 0 => Len(last.value) = Min(retriever.k, Len(store.texts))

\* Every stored embedding and the query's are zero vectors; k = 2 of the three
\* texts were returned
C16_Witness ==
    /\ Answered
    /\ retriever.k = 2
    /\ store.embeddings = <<(<<0, 0>>), (<<0, 0>>), (<<0, 0>>)>>
    /\ last.outcome.value = <<0, 0>>
    /\ last.similarities = <<Zero, Zero, Zero>>
    /\ Len(last.value) = 2

\* What each call asks of the embeddings model
EmbedsOnce ==
    /\ last.op = "SimpleVectorStore" =>
          last.calls = <<[method |-> "embed_documents", input |-> last.texts]>>
    /\ (last.op = "SimpleVectorStore" /\ last.raised = NoError) =>
          store.built /\ store.texts = last.texts
    /\ store.built => Len(store.embeddings) = Len(store.texts)
    /\ last.op = "retriever.invoke" =>
          last.calls = <<[method |-> "embed_query", input |-> last.query]>>
    /\ (last.op = "retriever.invoke" /\ last.raised = NoError) =>
          /\ Len(last.similarities) = Len(store.embeddings)
          /\ \A i \in DOMAIN store.embeddings :
                last.similarities[i] = CosineSimilarity(last.outcome.value,
                                                        store.embeddings[i])

\* A store, once built, stays as it is
StoreKept == store.built => store' = store

\* C17: constructing the store calls embed_documents once, on the texts, and
\* keeps one embedding per text; a query calls embed_query once, on the query,
\* and nothing else of the embeddings model, computes one similarity for each
\* stored embedding, and no step changes the store's texts or embeddings.
C17_StoreBuiltOnce == []EmbedsOnce /\ [][StoreKept]_vars

\* A query answered from a store of three texts
C17_Witness ==
    /\ Answered
    /\ Len(store.texts) = 3 /\ Len(store.embeddings) = 3
    /\ Len(last.similarities) = 3
    /\ Len(last.calls) = 1 /\ last.calls[1].method = "embed_query"

\* C18: a query whose embedding has not the length of some stored embedding
\* fails: it raises and returns no documents.
C18_DimensionMismatchFails ==
    (/\ last.op = "retriever.invoke"
     /\ ~last.outcome.raises
     /\ \E i \in DOMAIN store.embeddings :
            Len(store.embeddings[i]) # Len(last.outcome.value))
    => (last.raised # NoError /\ last.value = <<>>)

\* A query whose embedding raised: the error is the model's, nothing returned
QueryErrorRaised ==
    (last.op = "retriever.invoke" /\ last.outcome.raises) =>
        /\ last.raised = last.outcome.error
        /\ last.value = <<>>
        /\ last.calls = <<[method |-> "embed_query", input |-> last.query]>>

\* The failed query leaves the store and the retriever as they were, and the
\* next query, its embedding returned, is answered
QueryErrorLeavesStore ==
    /\ (last'.op = "retriever.invoke" /\ last'.outcome.raises) =>
           (store' = store /\ retriever' = retriever)
    /\ (/\ last.op = "retriever.invoke" /\ last.raised # NoError
        /\ last'.op = "retriever.invoke" /\ ~last'.outcome.raises) =>
           /\ last'.raised = NoError
           /\ retriever.k >= 0 => Len(last'.value) = Min(retriever.k, Len(store.texts))

\* C19: when embed_query raises, the query raises that error and returns no
\* documents, having made no other call of the embeddings model; the store and
\* the retriever are unchanged, and a query made next is answered.
C19_QueryErrorPropagates == []QueryErrorRaised /\ [][QueryErrorLeavesStore]_vars

\* A query on a store of three texts failed with the embeddings model's error
C19_Witness ==
    /\ last.op = "retriever.invoke"
    /\ last.outcome.raises
    /\ last.raised = "ConnectionError"
    /\ last.value = <<>>
    /\ store.built /\ Len(store.texts) = 3
    /\ retriever.k = 2

\* C20: for vectors of equal length cosine_similarity(a, b) equals
\* cosine_similarity(b, a), and for a vector that is not all zeros
\* cosine_similarity(a, a) is 1.
C20_CosineSymmetric ==
    last.op = "cosine_similarity" =>
        /\ Len(pending.vec1) = Len(pending.vec2) =>
              last.value = CosineSimilarity(pending.vec2, pending.vec1)
        /\ (pending.vec1 = pending.vec2 /\ \E c \in DOMAIN pending.vec1 : pending.vec1[c] # 0)
              => last.value = [num |-> 1, den |-> 1]

\* The similarity of (1, 2) with itself was computed
C20_Witness ==
    /\ last.op = "cosine_similarity"
    /\ pending.vec1 = <<1, 2>> /\ pending.vec2 = <<1, 2>>
    /\ last.value = One

\* The most recent min(window_size, number added) of the messages added
MostRecent(h) ==
    LET n == Min(h.window_size, Len(h.added))
    IN  SubSeq(h.added, Len(h.added) - n + 1, Len(h.added))

\* A history whose window is not 0 holds the most recent messages
WindowKeptPositive ==
    (history.made /\ history.window_size > 0) =>
        /\ Len(history.messages) <= history.window_size
        /\ history.messages = MostRecent(history)

\* C21: for every window_size >= 0, after any sequence of add_message and
\* clear calls the history holds at most window_size messages, and they are
\* the most recent min(window_size, number added since the last clear)
\* messages, in the order they were added.
C21_WindowKept ==
    history.made =>
        /\ Len(history.messages) <= history.window_size
        /\ history.messages = MostRecent(history)


\* Positions of the LLM responses in the messages of the run
Responses == {p \in 1..Len(agent.messages) : agent.messages[p].type = "ai"}

\* The run makes at most max_iterations LLM calls, none for max_iterations 0
BoundedLLMCalls ==
    /\ agent.llm_calls <= agent.max_iterations
    /\ agent.max_iterations = 0 => agent.llm_calls = 0

\* A response without tool calls is the last message of a run that returned
StopsAtFinalResponse ==
    \A p \in Responses :
        agent.messages[p].tool_calls = <<>> =>
            /\ p = Len(agent.messages)
            /\ agent.pc = "returned"
            /\ agent.llm_calls = Cardinality(Responses)

\* C22: both agent loops terminate: a run makes at most max_iterations LLM
\* calls (none when max_iterations is 0), stops at the first response that
\* carries no tool calls, and a run in its loop ends by returning or raising.
C22_AgentLoopsTerminate ==
    /\ [](BoundedLLMCalls /\ StopsAtFinalResponse)
    /\ (agent.pc = "loop") ~> (agent.pc \in {"returned", "raised"})

\* A run that used all of its MaxIterations iterations on tool calls, and
\* returned
C22_Witness ==
    /\ agent.pc = "returned"
    /\ agent.max_iterations = MaxIterations
    /\ agent.llm_calls = MaxIterations
    /\ \A p \in Responses : agent.messages[p].tool_calls # <<>>

\* The messages after response p, up to the next response or the end
AnswersOf(p) ==
    LET later == {q \in Responses : q > p}
        end == IF later = {} THEN Len(agent.messages)
               ELSE (CHOOSE q \in later : \A r \in later : q <= r) - 1
    IN  SubSeq(agent.messages, p + 1, end)

\* answers holds one ToolMessage for each of the calls, in their order, with
\* the call's id where the call has one
AnsweredInOrder(calls, answers) ==
    /\ Len(answers) = Len(calls)
    /\ \A i \in 1..Len(calls) :
           /\ answers[i].type = "tool"
           /\ calls[i].id # AbsentStr => answers[i].tool_call_id = calls[i].id

\* The calls of a list that name a tool of the agent
RECURSIVE KnownCalls(_)
KnownCalls(calls) ==
    IF calls = <<>> THEN <<>>
    ELSE IF Head(calls).name \in AgentTools THEN <<Head(calls)>> \o KnownCalls(Tail(calls))
         ELSE KnownCalls(Tail(calls))

\* In ToolCallingAgent the calls that name a known tool are answered in
\* order, whether the tool returned or raised
KnownToolCallsAnswered ==
    agent.cls = "ToolCallingAgent" =>
        \A p \in Responses :
            AnsweredInOrder(KnownCalls(agent.messages[p].tool_calls), AnswersOf(p))

\* C23: in ToolCallingAgent.invoke, when a response with tool calls is followed
\* by another LLM call, each of its calls has been answered before that call
\* by one ToolMessage with the call's id, in the order of the calls.
C23_ToolCallsAnswered ==
    agent.cls = "ToolCallingAgent" =>
        \A p \in Responses :
            (\E q \in Responses : q > p) =>
                AnsweredInOrder(agent.messages[p].tool_calls, AnswersOf(p))

\* C24: the "output" of a run that returned after at least one LLM call is the
\* text of the last LLM response of the run.
C24_OutputIsLastResponse ==
    (agent.pc = "returned" /\ agent.llm_calls > 0) =>
        \E p \in Responses :
            /\ \A q \in Responses : q <= p
            /\ agent.output = agent.messages[p].content

\* A run left by a response without tool calls, or by an unknown tool in
\* SimpleAgentExecutor, returns the text of that response
OutputAfterBreak ==
    (agent.pc = "returned" /\ agent.llm_calls > 0
        /\ agent.messages[Len(agent.messages)].type = "ai") =>
            agent.output = agent.messages[Len(agent.messages)].content

\* The invocation has ended, by returning or raising
ChainEnded == chain.pc \in {"returned", "raised"}

\* The parser step is attempted at most StopAfterAttempt times, and only
\* after StopAfterAttempt failed attempts does its exception leave the chain
AttemptsBounded ==
    /\ chain.attempts <= StopAfterAttempt
    /\ chain.raised = "OutputParserException" =>
           chain.attempts = StopAfterAttempt /\ 1..StopAfterAttempt \subseteq chain.fails

\* The model step runs once, whatever the number of parser attempts
ModelStepOnce ==
    /\ chain.llm_calls <= 1
    /\ chain.attempts > 0 => chain.llm_calls = 1

\* With the parser that fails on its first attempt only, an invocation whose
\* model step returned ends by returning the stripped text after 2 attempts
FailsFirstOnly ==
    (chain.fails = {1} /\ ChainEnded /\ chain.raised # "RateLimitError") =>
        /\ chain.pc = "returned"
        /\ chain.attempts = 2
        /\ chain.attempt_count = 2
        /\ chain.result = Strip(chain.message)

\* C25: the parser step under stop_after_attempt=3 is attempted at most 3 times
\* in a chain invocation; with a parser failing only on its first attempt the
\* chain returns the parsed text after exactly 2 attempts; the LLM step is
\* invoked exactly once, only the wrapped step being retried.
C25_RetryParserOnly == AttemptsBounded /\ ModelStepOnce /\ FailsFirstOnly

\* The demo's parser: the chain returned after the retry, and the parsed
\* text differs from the text of the model
C25_Witness ==
    /\ chain.fails = {1}
    /\ chain.pc = "returned"
    /\ chain.attempts = 2
    /\ chain.llm_calls = 1
    /\ chain.result # chain.message

\* No demo is attempted unless the connection test succeeded, and a run
\* without a connection ends with status 1 and no banner
DemosNeedConnection ==
    /\ runner.ran # <<>> => runner.connected
    /\ (runner.pc = "exited" /\ ~runner.connected) =>
           runner.status = 1 /\ runner.ran = <<>> /\ ~runner.banner

\* The demos attempted are the first ones of the list, in its order, and a
\* demo whose exception was caught is among them
DemosInOrder ==
    /\ Len(runner.ran) <= Len(Demos)
    /\ runner.ran = SubSeq(Demos, 1, Len(runner.ran))
    /\ runner.caught \subseteq {runner.ran[i] : i \in 1..Len(runner.ran)}

\* A connected run ends only after all demos, with the banner printed
EndsAfterAllDemos ==
    (runner.pc = "exited" /\ runner.connected) =>
        runner.ran = Demos /\ runner.banner /\ runner.status = 0

\* C26: main runs no demo unless the connection test succeeded and exits with
\* status 1 when it failed; after a successful test all 12 demos are attempted
\* in the listed order, an exception of a demo being caught, and the
\* completion banner is printed.
C26_DemosAllAttempted ==
    /\ [](DemosNeedConnection /\ DemosInOrder /\ EndsAfterAllDemos)
    /\ runner.connected ~> (runner.ran = Demos /\ runner.banner)

\* A run in which the first demo and another one raised, and which ended
\* with all demos attempted and the banner
C26_Witness ==
    /\ runner.pc = "exited"
    /\ runner.ran = Demos
    /\ Demos[1] \in runner.caught
    /\ Cardinality(runner.caught) >= 2
    /\ runner.banner

\* What a client holds for a keyword argument it was not given: its default,
\* None
ClientNum(v) == IF v = Absent THEN None ELSE v
ClientStr(v) == IF v = AbsentStr THEN NoneStr ELSE v

\* The adapter's recorded value when it has the attribute, None otherwise
RecordedStr(v) == IF v = AbsentStr THEN NoneStr ELSE v

\* The client of adapter x was constructed with the values x records
ClientMatches(x) ==
    LET client == clients[x.llm]
    IN  /\ client.model = x.model_name
        /\ client.temperature = x.temperature
        /\ client.top_p = x.top_p
        /\ ClientNum(client.max_tokens) = MaxTokensOf(x)
        /\ ClientStr(client.base_url) = RecordedStr(x.base_url)
        /\ ClientStr(client.api_key) = RecordedStr(x.api_key)

\* No recorded token limit, base URL or key of x is falsy without being None
NoFalsyValue(x) ==
    /\ MaxTokensOf(x) # 0
    /\ x.base_url # ""
    /\ x.api_key # ""

\* An adapter without falsy values, and every Ollama adapter, records what its
\* client was constructed with
ClientMatchesUnlessFalsy ==
    \A i \in DOMAIN adapters :
        (NoFalsyValue(adapters[i]) \/ adapters[i].cls = "OllamaProvider") =>
            ClientMatches(adapters[i])

\* C27: the model, endpoint, API key and sampling parameters recorded on every
\* adapter are those its client was constructed with, falsy values included
\* (an argument left out of the client's construction counts as None).
C27_AdapterMatchesClient ==
    \A i \in DOMAIN adapters : ClientMatches(adapters[i])

\* C28: update_parameters with max_tokens None carries the receiver's token
\* limit over, so the adapter returned for a receiver with a limit has a limit,
\* while a temperature or top_p of 0 is taken as the new value.
C28_LimitCarriedOver ==
    last.op = "update_parameters" =>
        LET old == adapters[last.self]
            new == adapters[last.ret]
        IN  /\ last.max_tokens = None => MaxTokensOf(new) = MaxTokensOf(old)
            /\ MaxTokensOf(old) # None => MaxTokensOf(new) # None
            /\ last.temperature = 0 => new.temperature = 0
            /\ last.top_p = 0 => new.top_p = 0

\* An adapter with a limit of 64 and non-zero temperature and top_p was
\* updated with temperature 0, top_p 0 and max_tokens None
C28_Witness ==
    /\ last.op = "update_parameters"
    /\ last.temperature = 0 /\ last.top_p = 0 /\ last.max_tokens = None
    /\ adapters[last.self].temperature # 0
    /\ adapters[last.self].top_p # 0
    /\ MaxTokensOf(adapters[last.self]) = 64
    /\ MaxTokensOf(adapters[last.ret]) = 64
    /\ adapters[last.ret].temperature = 0

\* Entry a of the corpus ranks before entry b: higher similarity, or the same
\* similarity and the lower index
RanksBefore(sim, a, b) ==
    \/ Greater(sim[a], sim[b])
    \/ (sim[a] = sim[b] /\ a < b)

\* C29: among entries of equal similarity the one with the lower corpus index
\* is ranked first, so the list returned is the one list that store, k and
\* query embedding determine: its entries are in rank order and each ranks
\* before every entry left out.
C29_TiesByCorpusOrder ==
    Answered =>
        LET n == Len(store.texts)
            top == last.top_indices
            sim == last.similarities
        IN  /\ \A i, j \in DOMAIN top : i < j => RanksBefore(sim, top[i], top[j])
            /\ \A o \in 1..n : (\A i \in DOMAIN top : top[i] # o) =>
                  \A i \in DOMAIN top : RanksBefore(sim, top[i], o)
            /\ last.value = [i \in DOMAIN top |-> Document(store.texts[top[i]])]

\* Three entries of the same similarity to the query, of which the first two
\* were returned in corpus order
C29_Witness ==
    /\ Answered
    /\ retriever.k = 2
    /\ store.texts = <<"apple", "banana", "car">>
    /\ store.embeddings = <<(<<1, 0>>), (<<1, 0>>), (<<1, 0>>)>>
    /\ last.outcome.value = <<1, 1>>
    /\ last.top_indices = <<1, 2>>
    /\ last.value = <<[page_content |-> "apple"], [page_content |-> "banana"]>>

\* The callers that have returned from get_config
Done == {t \in DOMAIN threads : threads[t].pc = "done"}

\* A caller that entered get_config when _config was set constructs nothing,
\* and every caller returns an instance that exists
CallersReturnInstances ==
    \A t \in Done : threads[t].ret \in DOMAIN configs

\* C30: when callers invoke get_config() concurrently while the singleton does
\* not exist, LLMConfig is constructed once and all callers that return hold
\* the same instance.
C30_ConcurrentSingleton ==
    /\ Len(configs) <= 1
    /\ \A t, u \in Done : threads[t].ret = threads[u].ret
====
